---- MODULE Spec2Model ----
(***************************************************************************)
(* Event-sourced scheduling core of clawquant: the event log               *)
(* (src/core/event-log.ts), the cron engine (task/cron/engine.ts), the     *)
(* cron listener (task/cron/listener.ts) and the heartbeat                 *)
(* (task/heartbeat/heartbeat.ts).                                          *)
(*                                                                         *)
(* JavaScript runs one callback at a time: every action below is one       *)
(* callback run to its next await.  An await on I/O is a record in a       *)
(* variable (pend, ops, cons) that a later action completes.               *)
(***************************************************************************)
EXTENDS Integers, Sequences, FiniteSets, TLC

\* ------------------------------------------------------------------ bounds
MaxSeq == 3
MaxPend == 2
BufferSize == 2
MaxCrashes == 2
MaxFanSeq == 2
MaxTorn == 1
MaxRegs == 3
MaxJobs == 2
MaxOps == 2
MaxCronSeq == 2
MaxClockSteps == 2
MaxRestarts == 1
MaxCalls == 1
MaxStoreCalls == 2
MaxScheduleCalls == 1
MaxLsnSeq == 2
MaxHbSeq == 4
MaxHbCalls == 3
MaxBackoffFires == 6
MaxOneShotFires == 3

Null == 0 - 1
NaN == 0 - 2
\* the owner of an append made by an outside caller
Client == 0

VARIABLES
    file,           \* the JSONL file: a sequence of tokens (entry text, "\n", torn text)
    seq,            \* let seq
    buffer,         \* let buffer: EventLogEntry[]
    listeners,      \* const listeners = new Set(): insertion ordered
    typeListeners,  \* const typeListeners = new Map(): type -> insertion ordered set
    pend,           \* append calls waiting on appendFile
    up,             \* whether a process holds an open log
    crashes,        \* number of crashes so far
    ackLog,         \* history: the entries append() resolved with, in order, while serial
    ackedMax,       \* history: the highest seq append() has resolved with
    rejected,       \* history: the seq of the entries whose append() rejected (this process)
    lastFan,        \* history: the listeners called by the latest fan-out, in order
    lastFanSeq,     \* history: the seq of the entry of the latest fan-out
    serial,         \* history: every append so far was awaited before the next, and succeeded
    regs,           \* history: the registrations in force, <<listener, type or "">>, in the order made
    bufferSize      \* const bufferSize = opts?.bufferSize ?? DEFAULT_BUFFER_SIZE

logVars == <<file, seq, buffer, listeners, typeListeners, pend, up, crashes,
             ackLog, ackedMax, rejected, lastFan, lastFanSeq, serial, regs, bufferSize>>

VARIABLES
    now,        \* the clock (ms)
    jobs,       \* let jobs: CronJob[], as references into heap
    heap,       \* the CronJob objects
    timer,      \* let timer: the handle of the latest setTimeout, or Null
    timeouts,   \* the pending setTimeout callbacks: [id, at]
    stopped,    \* let stopped
    started,    \* whether start() was called on this engine
    storeIno,   \* the file at storePath (an inode, 0 when absent)
    tmpIno,     \* the file at `${storePath}.${pid}.tmp` (an inode, 0 when absent)
    inodes,     \* the contents of the files
    ops,        \* the calls of the engine that are waiting at an await
    usedIds,    \* the job ids randomUUID has given out
    restarts,   \* number of process restarts so far
    callsLeft,      \* the calls of the engine's interface the caller still makes
    saveFailed, \* history: a save() of this engine has rejected
    lastCall,   \* history: the calls of update, remove and runNow so far: how many, the id of the latest, the id its error names
    fireBudget  \* the cron.fire appends the modelled run makes at most

cronVars == <<now, jobs, heap, timer, timeouts, stopped, started, storeIno,
              tmpIno, inodes, ops, usedIds, restarts, callsLeft, saveFailed, lastCall, fireBudget>>

VARIABLES
    cons,       \* per consumer: let processing; let unsubscribe, as the callback it removes ("" when null)
    invs,       \* the handleFire invocations waiting at an await
    asked,      \* history: the fires engine.askWithSession was called for
    dropped,    \* history: the fires a busy consumer returned from at once
    cfg,        \* what the run is configured with: config.activeHours, the replies the engine gives
    delivs,     \* history: the calls of target.deliver that have settled, in order
    outcomes,   \* history: the result events whose append has resolved, with their fire
    hb,         \* the heartbeat: let enabled, let jobId, the fields of its HeartbeatDedup
    hbCalls,    \* the calls of start and setEnabled of the heartbeat waiting at an await
    hbFile,     \* enabled in heartbeat.json as writeConfigSection wrote it ("" before)
    hbLast      \* history: the calls of start and setEnabled that have settled: how many, the latest

consVars == <<cons, invs, asked, dropped, cfg, delivs, outcomes, hb, hbCalls, hbFile, hbLast>>

otherVars == <<cronVars, consVars, bufferSize>>

vars == <<logVars, cronVars, consVars>>

\* ------------------------------------------------------------- event log
ClientTypes == {"a", "b"}
Types == ClientTypes \cup {"cron.fire"}
\* the types the modelled subscribers register for with subscribeType
SubTypes == {"a"}
Subs == {"s1", "s2", "s3"}
\* the subscriber callbacks that throw when called
Throwing == {"s2"}

NL == <<"NL">>
PART == <<"PART">>
EntryText(e) == <<"E", e>>

\* JSON.stringify(entry) + '\n'
Line(e) == <<EntryText(e), NL>>

\* raw.split('\n')
RECURSIVE SplitLines(_)
SplitLines(raw) ==
    IF raw = <<>> THEN << <<>> >>
    ELSE LET rest == SplitLines(Tail(raw)) IN
         IF Head(raw) = NL THEN << <<>> >> \o rest
         ELSE << <<Head(raw)>> \o Head(rest) >> \o Tail(rest)

\* JSON.parse(line) succeeds on the text of exactly one entry
Parses(line) == Len(line) = 1 /\ line[1][1] = "E"

\* the parse loop shared by read and recoverState: blank lines are skipped,
\* a line that does not parse is skipped
RECURSIVE ParseLines(_)
ParseLines(lines) ==
    IF lines = <<>> THEN <<>>
    ELSE LET line == Head(lines) IN
         IF line = <<>> THEN ParseLines(Tail(lines))
         ELSE IF Parses(line) THEN <<line[1][2]>> \o ParseLines(Tail(lines))
         ELSE ParseLines(Tail(lines))

ParsedEntries(raw) == ParseLines(SplitLines(raw))

\* entries.slice(-n): -0 is 0, so that slice(-0) is the whole array
SliceLast(s, n) ==
    IF n = 0 \/ Len(s) <= n THEN s ELSE SubSeq(s, Len(s) - n + 1, Len(s))

\* recoverState: the seq it returns
RecoverSeq(raw) ==
    LET entries == ParsedEntries(raw) IN
    IF entries = <<>> THEN 0 ELSE entries[Len(entries)].seq

\* recoverState: what it leaves in the buffer
RecoverBuffer(raw, size) == SliceLast(ParsedEntries(raw), size)

\* the filter loop of read and recent; limit = Null is "no limit" (Infinity),
\* type = "" is "no filter"
RECURSIVE FilterLoop(_, _, _, _, _)
FilterLoop(entries, afterSeq, limit, type, results) ==
    IF entries = <<>> THEN results
    ELSE LET e == Head(entries) IN
         IF e.seq <= afterSeq THEN FilterLoop(Tail(entries), afterSeq, limit, type, results)
         ELSE IF type # "" /\ e.type # type
              THEN FilterLoop(Tail(entries), afterSeq, limit, type, results)
         ELSE LET r == Append(results, e) IN
              IF limit # Null /\ Len(r) >= limit THEN r
              ELSE FilterLoop(Tail(entries), afterSeq, limit, type, r)

Read(raw, afterSeq, limit, type) ==
    FilterLoop(ParsedEntries(raw), afterSeq, limit, type, <<>>)

Recent(buf, afterSeq, limit, type) == FilterLoop(buf, afterSeq, limit, type, <<>>)

\* seq += 1
NextSeqNoIncrement(s) == s
NextSeq(s) == s + 1

\* buffer.push(entry); truncate when over bufferSize
PushBuffer(buf, e, size) ==
    LET b == Append(buf, e) IN
    IF Len(b) > size THEN SubSeq(b, Len(b) - size + 1, Len(b)) ELSE b

\* the statements after `await appendFile(...)` run only when it resolved
CommitAlways(ok, buf, e, size) == PushBuffer(buf, e, size)
CommitToBuffer(ok, buf, e, size) ==
    IF ok THEN PushBuffer(buf, e, size) ELSE buf

\* the listeners a fan-out visits: the global set, then the set of the type
FanOutOrderTypeFirst(ls, tls, type) ==
    (IF type \in DOMAIN tls THEN tls[type] ELSE <<>>) \o ls
FanOutOrder(ls, tls, type) ==
    ls \o (IF type \in DOMAIN tls THEN tls[type] ELSE <<>>)

\* the fan-out loops: each call is wrapped in try/catch
RECURSIVE NotifyNoCatch(_)
NotifyNoCatch(order) ==
    IF order = <<>> THEN [called |-> <<>>, threw |-> FALSE]
    ELSE IF Head(order) \in Throwing THEN [called |-> <<Head(order)>>, threw |-> TRUE]
    ELSE LET r == NotifyNoCatch(Tail(order)) IN
         [called |-> <<Head(order)>> \o r.called, threw |-> r.threw]
Notify(order) == [called |-> order, threw |-> FALSE]

InSeq(x, s) == \E i \in 1..Len(s) : s[i] = x
Remove(x, s) == SelectSeq(s, LAMBDA y : y # x)
SetAdd(s, x) == IF InSeq(x, s) THEN s ELSE Append(s, x)

TornCount(raw) == Cardinality({i \in 1..Len(raw) : raw[i] = PART})

NoTypeListeners == [t \in Types |-> <<>>]

Registrations == Len(listeners) + Len(typeListeners["a"])

LogStart ==
    /\ file = <<>>
    /\ seq = 0
    /\ buffer = <<>>
    /\ listeners = <<>>
    /\ typeListeners = NoTypeListeners
    /\ pend = {}
    /\ up = TRUE
    /\ crashes = 0
    /\ ackLog = <<>>
    /\ ackedMax = 0
    /\ rejected = {}
    /\ lastFan = <<>>
    /\ lastFanSeq = 0
    /\ serial = TRUE
    /\ regs = <<>>

LogInit == LogStart /\ bufferSize = BufferSize
\* createEventLog({ bufferSize }) with any size up to BufferSize
BufInit == LogStart /\ bufferSize \in 0..BufferSize

\* append(type, payload), to its await on appendFile
AppendBegin(owner, type, payload) ==
    /\ up
    /\ Cardinality(pend) < MaxPend
    /\ seq' = NextSeq(seq)
    /\ pend' = pend \cup {[e |-> [seq |-> seq', type |-> type, payload |-> payload],
                          owner |-> owner, st |-> "writing"]}
    /\ serial' = (serial /\ pend = {})
    /\ ackLog' = IF serial' THEN ackLog ELSE <<>>

\* a caller appends to a log that has no subscriber
ClientAppend ==
    /\ seq < MaxSeq
    /\ \E t \in ClientTypes : AppendBegin(Client, t, <<>>)
    /\ UNCHANGED <<file, buffer, listeners, typeListeners, regs, up, crashes,
                   ackedMax, rejected, lastFan, lastFanSeq, otherVars>>

\* appendFile writes the line at the end of the file (O_APPEND)
DiskWrite ==
    /\ \E p \in pend :
        /\ p.st = "writing"
        /\ file' = file \o Line(p.e)
        /\ pend' = (pend \ {p}) \cup {[p EXCEPT !.st = "written"]}
    /\ UNCHANGED <<seq, buffer, listeners, typeListeners, regs, up, crashes,
                   ackLog, ackedMax, rejected, lastFan, lastFanSeq, serial, otherVars>>

\* append after its await: buffer, fan-out, return entry
AppendResumeOf(p) ==
    /\ p.st = "written"
        /\ buffer' = CommitToBuffer(TRUE, buffer, p.e, bufferSize)
        /\ LET n == Notify(FanOutOrder(listeners, typeListeners, p.e.type)) IN
            /\ lastFan' = n.called
            /\ lastFanSeq' = p.e.seq
            /\ IF n.threw
               THEN /\ rejected' = rejected \cup {p.e.seq}
                    /\ ackLog' = <<>>
                    /\ serial' = FALSE
                    /\ UNCHANGED ackedMax
               ELSE /\ ackLog' = IF serial THEN Append(ackLog, p.e) ELSE <<>>
                    /\ ackedMax' = IF p.e.seq > ackedMax THEN p.e.seq ELSE ackedMax
                    /\ UNCHANGED <<rejected, serial>>
        /\ pend' = pend \ {p}

AppendResume ==
    /\ \E p \in pend : p.owner = Client /\ AppendResumeOf(p)
    /\ UNCHANGED <<file, seq, listeners, typeListeners, regs, up, crashes, otherVars>>

\* appendFile rejects: append throws at its await.  The write may have put
\* part of the line in the file before it failed.
AppendFailOf(p) ==
        /\ p.st = "writing"
        /\ \/ file' = file
           \/ /\ TornCount(file) < MaxTorn
              /\ file' = Append(file, PART)
        /\ pend' = pend \ {p}
        /\ rejected' = rejected \cup {p.e.seq}
        /\ buffer' = CommitToBuffer(FALSE, buffer, p.e, bufferSize)
        /\ serial' = FALSE
        /\ ackLog' = <<>>

AppendFail ==
    /\ \E p \in pend : p.owner = Client /\ AppendFailOf(p)
    /\ UNCHANGED <<seq, listeners, typeListeners, regs, up, crashes,
                   ackedMax, lastFan, lastFanSeq, otherVars>>

Subscribe ==
    /\ up
    /\ Registrations < MaxRegs
    /\ \E fn \in Subs :
        /\ ~InSeq(fn, listeners)
        /\ listeners' = SetAdd(listeners, fn)
        /\ regs' = Append(regs, <<fn, "">>)
    /\ UNCHANGED <<file, seq, buffer, typeListeners, pend, up, crashes,
                   ackLog, ackedMax, rejected, lastFan, lastFanSeq, serial, otherVars>>

SubscribeType ==
    /\ up
    /\ Registrations < MaxRegs
    /\ \E fn \in Subs, t \in SubTypes :
        /\ ~InSeq(fn, typeListeners[t])
        /\ typeListeners' = [typeListeners EXCEPT ![t] = SetAdd(@, fn)]
        /\ regs' = Append(regs, <<fn, t>>)
    /\ UNCHANGED <<file, seq, buffer, listeners, pend, up, crashes,
                   ackLog, ackedMax, rejected, lastFan, lastFanSeq, serial, otherVars>>

\* the function subscribe returned
Unsubscribe ==
    /\ up
    /\ \E fn \in Subs :
        /\ InSeq(fn, listeners)
        /\ listeners' = Remove(fn, listeners)
        /\ regs' = Remove(<<fn, "">>, regs)
    /\ UNCHANGED <<file, seq, buffer, typeListeners, pend, up, crashes,
                   ackLog, ackedMax, rejected, lastFan, lastFanSeq, serial, otherVars>>

\* the function subscribeType returned
UnsubscribeType ==
    /\ up
    /\ \E fn \in Subs, t \in SubTypes :
        /\ InSeq(fn, typeListeners[t])
        /\ typeListeners' = [typeListeners EXCEPT ![t] = Remove(fn, @)]
        /\ regs' = Remove(<<fn, t>>, regs)
    /\ UNCHANGED <<file, seq, buffer, listeners, pend, up, crashes,
                   ackLog, ackedMax, rejected, lastFan, lastFanSeq, serial, otherVars>>

Close ==
    /\ up
    /\ listeners # <<>> \/ buffer # <<>> \/ typeListeners # NoTypeListeners
    /\ listeners' = <<>>
    /\ typeListeners' = NoTypeListeners
    /\ regs' = <<>>
    /\ buffer' = <<>>
    /\ UNCHANGED <<file, seq, pend, up, crashes,
                   ackLog, ackedMax, rejected, lastFan, lastFanSeq, serial, otherVars>>

\* the process dies; a write in progress may leave part of its line
Crash ==
    /\ up
    /\ crashes < MaxCrashes
    /\ up' = FALSE
    /\ crashes' = crashes + 1
    /\ \/ file' = file
       \/ /\ \E p \in pend : p.st = "writing"
          /\ TornCount(file) < MaxTorn
          /\ file' = Append(file, PART)
    /\ pend' = {}
    /\ seq' = 0
    /\ buffer' = <<>>
    /\ listeners' = <<>>
    /\ typeListeners' = NoTypeListeners
    /\ regs' = <<>>
    /\ rejected' = {}
    /\ serial' = (serial /\ pend = {})
    /\ ackLog' = IF serial' THEN ackLog ELSE <<>>
    /\ UNCHANGED <<ackedMax, lastFan, lastFanSeq, otherVars>>

\* createEventLog on the same file
Open ==
    /\ ~up
    /\ up' = TRUE
    /\ seq' = RecoverSeq(file)
    /\ buffer' = RecoverBuffer(file, bufferSize)
    /\ UNCHANGED <<file, listeners, typeListeners, regs, pend, crashes,
                   ackLog, ackedMax, rejected, lastFan, lastFanSeq, serial, otherVars>>

\* the log alone: appends, failures, crashes and recovery
LogNext ==
    \/ ClientAppend
    \/ DiskWrite
    \/ AppendResume
    \/ AppendFail
    \/ Close
    \/ Crash
    \/ Open

\* the log in use, created with any buffer size: appends, failures, crashes
\* and recovery
BufNext ==
    \/ ClientAppend
    \/ DiskWrite
    \/ AppendResume
    \/ AppendFail
    \/ Crash
    \/ Open

\* a caller appends to a log that may have subscribers
FanAppend ==
    /\ seq < MaxFanSeq
    /\ \E t \in ClientTypes : AppendBegin(Client, t, <<>>)
    /\ UNCHANGED <<file, buffer, listeners, typeListeners, regs, up, crashes,
                   ackedMax, rejected, lastFan, lastFanSeq, otherVars>>

\* the log and its subscribers
FanNext ==
    \/ FanAppend
    \/ DiskWrite
    \/ AppendResume
    \/ AppendFail
    \/ Subscribe
    \/ SubscribeType
    \/ Unsubscribe
    \/ UnsubscribeType


\* ------------------------------------------------------------ cron engine
Min(a, b) == IF a < b THEN a ELSE b
Max(a, b) == IF a > b THEN a ELSE b
SetMin(S) == CHOOSE x \in S : \A y \in S : x <= y

\* new Date(s).getTime(): <<t>> is the text of the instant t, <<>> any text
\* that is no date
ParseDate(s) == IF Len(s) = 1 THEN s[1] ELSE NaN

\* parseDuration: <<h, m, s>> is a text the regular expression matches (an
\* absent component is 0), <<>> one it does not match
parseDuration(s) ==
    IF Len(s) # 3 THEN Null
    ELSE IF s[1] = 0 /\ s[2] = 0 /\ s[3] = 0 THEN Null
    ELSE (s[1] * 3600 + s[2] * 60 + s[3]) * 1000

\* parseFieldValues: a field is a list of parts [k, a, b, step]
PartValues(part) ==
    CASE part.k = "step" -> {part.a + i * part.step : i \in 0..59} \cap part.a..part.b
      [] part.k = "range" -> part.a..part.b
      [] part.k = "star" -> 0..59
      [] part.k = "num" -> {part.a}
      [] OTHER -> {}

parseFieldValues(field) ==
    IF \E i \in 1..Len(field) :
          field[i].k = "bad" \/ (field[i].k = "step" /\ field[i].step = 0)
    THEN <<>>
    ELSE LET vals == UNION {PartValues(field[i]) : i \in 1..Len(field)} IN
         IF vals = {} THEN <<>> ELSE <<vals>>

Star == <<[k |-> "star", a |-> 0, b |-> 0, step |-> 0]>>
EveryMinute == <<Star, Star, Star, Star, Star>>

\* the wall-clock components of an instant of the first day of the epoch
\* (1970-01-01, a Thursday)
MinuteOf(t) == (t \div 60000) % 60
HourOf(t) == (t \div 3600000) % 24
DateOf(t) == 1 + (t \div 86400000)
MonthOf(t) == 1
DayOf(t) == (4 + (t \div 86400000)) % 7

\* the minutes nextCronFire is followed through in this model
CronScanMinutes == 61

\* nextCronFire
nextCronFire(expr, afterMs) ==
    IF Len(expr) # 5 THEN Null
    ELSE LET fields == [i \in 1..5 |-> parseFieldValues(expr[i])] IN
         IF \E i \in 1..5 : fields[i] = <<>> THEN Null
         ELSE LET start == (afterMs \div 60000) * 60000 + 60000
                  hits == {c \in {start + k * 60000 : k \in 0..(CronScanMinutes - 1)} :
                             /\ MonthOf(c) \in fields[4][1]
                             /\ DateOf(c) \in fields[3][1]
                             /\ DayOf(c) \in fields[5][1]
                             /\ HourOf(c) \in fields[2][1]
                             /\ MinuteOf(c) \in fields[1][1]}
              IN IF hits = {} THEN Null ELSE SetMin(hits)

\* computeNextRun
computeNextRun(schedule, afterMs) ==
    CASE schedule.kind = "at" ->
            LET t == ParseDate(schedule.expr) IN
            IF t = NaN THEN Null ELSE IF t > afterMs THEN t ELSE Null
      [] schedule.kind = "every" ->
            LET ms == parseDuration(schedule.expr) IN
            IF ms # Null /\ ms # 0 THEN afterMs + ms ELSE Null
      [] OTHER -> nextCronFire(schedule.expr, afterMs)

ERROR_BACKOFF_MS == <<30000, 60000, 300000, 900000, 3600000>>

\* mutation: the error count is not brought to a table index
errorBackoffMsOffByOne(consecutiveErrors) ==
    LET idx == Min(consecutiveErrors, Len(ERROR_BACKOFF_MS) - 1) IN
    ERROR_BACKOFF_MS[Max(0, idx) + 1]

errorBackoffMs(consecutiveErrors) ==
    LET idx == Min(consecutiveErrors - 1, Len(ERROR_BACKOFF_MS) - 1) IN
    ERROR_BACKOFF_MS[Max(0, idx) + 1]

\* ---- the inputs the modelled callers give
Names == {"j"}
Payloads == {"p"}
Schedules ==
    { [kind |-> "at", expr |-> <<1000>>],
      [kind |-> "at", expr |-> <<0>>],
      [kind |-> "every", expr |-> <<0, 0, 1>>] }
Patches ==
    { [name |-> "", payload |-> "", enabled |-> "false", schedule |-> <<>>],
      [name |-> "k", payload |-> "q", enabled |-> "true", schedule |-> <<>>],
      [name |-> "", payload |-> "", enabled |-> "",
       schedule |-> <<[kind |-> "every", expr |-> <<0, 0, 2>>]>>] }

\* ---- files of the job store
EmptyFile == [k |-> "empty", jobs |-> <<>>]
MixedFile == [k |-> "mixed", jobs |-> <<>>]
\* JSON.stringify({ jobs }, null, 2)
Doc(js, h) == [k |-> "doc", jobs |-> [i \in 1..Len(js) |-> h[js[i]]]]

\* the inodes and objects still referenced
LiveInodes(si, ti, os) == ({si, ti} \cup {o.fd : o \in os}) \ {0}
GcInodes(ino, si, ti, os) == [n \in LiveInodes(si, ti, os) |-> ino[n]]
OpRefs(o) == ({o.job} \cup {o.due[i] : i \in (o.idx + 1)..Len(o.due)}) \ {0}
LiveObjs(js, os) == {js[i] : i \in 1..Len(js)} \cup UNION {OpRefs(o) : o \in os}
GcHeap(h, js, os) == [a \in LiveObjs(js, os) |-> h[a]]

FreshIn(S) == SetMin((1..(Cardinality(S) + 1)) \ S)

EngineInit ==
    /\ now = 0
    /\ jobs = <<>>
    /\ heap = <<>>
    /\ timer = Null
    /\ timeouts = {}
    /\ stopped = FALSE
    /\ started = FALSE
    /\ storeIno = 0
    /\ tmpIno = 0
    /\ inodes = <<>>
    /\ ops = {}
    /\ usedIds = {}
    /\ restarts = 0
    /\ saveFailed = FALSE
    /\ lastCall = [n |-> 0, id |-> Null, err |-> Null]

CronInit == EngineInit /\ callsLeft = MaxCalls /\ fireBudget = MaxCronSeq
StoreInit == EngineInit /\ callsLeft = MaxStoreCalls /\ fireBudget = MaxCronSeq

\* ---- the calls in progress
\* pc: "fire" the append of fireJob is in flight, "fired" it has settled (res)
\* and fireJob's continuation is the next microtask; "load" readFile of load;
\* "mkdir", "open", "write", "rename" the steps of save.  att is history: the
\* fires the call has started.
NewOp(id, kind, pc) ==
    [id |-> id, kind |-> kind, pc |-> pc, job |-> 0, due |-> <<>>, idx |-> 0,
     cur |-> 0, res |-> "", snap |-> EmptyFile, fd |-> 0, att |-> <<>>]

OpIds == {o.id : o \in ops} \cup {p.owner : p \in pend}
\* no microtask is waiting: the event loop may take the next macrotask
Quiet == \A o \in ops : o.pc # "fired"
Firing(os) == {o \in os : o.pc \in {"fire", "fired"}}

\* the appends made so far and those the loops in progress will still make
RECURSIVE SumLeft(_)
SumLeft(os) ==
    IF os = {} THEN 0
    ELSE LET o == CHOOSE x \in os : TRUE IN
         (Len(o.due) - o.idx) + SumLeft(os \ {o})
Planned == seq + SumLeft({o \in ops : o.kind = "tick" /\ o.pc \in {"fire", "fired"}})

\* jobs.filter(...) of onTick
IsDue(j, currentMs) ==
    j.enabled /\ j.nextRunAtMs # Null /\ j.nextRunAtMs <= currentMs
RECURSIVE Filter(_, _, _)
Filter(js, h, currentMs) ==
    IF js = <<>> THEN <<>>
    ELSE (IF IsDue(h[Head(js)], currentMs) THEN <<Head(js)>> ELSE <<>>)
         \o Filter(Tail(js), h, currentMs)
\* mutation: only the first due job is taken
dueJobsFirstOnly(js, h, currentMs) == SubSeq(Filter(js, h, currentMs), 1, 1)
dueJobs(js, h, currentMs) == Filter(js, h, currentMs)

\* mutation: the first job stands in for a job that is not found
FindOrFirst(js, h, id) ==
    LET hits == {i \in 1..Len(js) : h[js[i]].id = id} IN
    IF hits = {} THEN (IF js = <<>> THEN 0 ELSE js[1]) ELSE js[SetMin(hits)]

\* jobs.find((j) => j.id === id): 0 when there is none
Find(js, h, id) ==
    LET hits == {i \in 1..Len(js) : h[js[i]].id = id} IN
    IF hits = {} THEN 0 ELSE js[SetMin(hits)]
findIndex(js, h, id) ==
    LET hits == {i \in 1..Len(js) : h[js[i]].id = id} IN
    IF hits = {} THEN 0 ELSE SetMin(hits)
splice(js, idx) == SubSeq(js, 1, idx - 1) \o SubSeq(js, idx + 1, Len(js))

\* armTimer
armTimer(tm, tos, js, h, stp, t) ==
    IF stp THEN [timer |-> tm, timeouts |-> tos]
    ELSE LET cands == {h[js[i]].nextRunAtMs : i \in
                         {k \in 1..Len(js) : h[js[k]].enabled /\ h[js[k]].nextRunAtMs # Null}}
         IN IF cands = {} THEN [timer |-> tm, timeouts |-> tos]
            ELSE LET nextMs == SetMin(cands)
                     delayMs == Max(0, Min(nextMs - t, 60000))
                     id == FreshIn({x.id : x \in tos} \cup ({tm} \ {Null}))
                 IN [timer |-> id, timeouts |-> tos \cup {[id |-> id, at |-> t + delayMs]}]

\* if (timer) { clearTimeout(timer); timer = null }
clearTimer(tm, tos) ==
    IF tm # Null THEN [timer |-> Null, timeouts |-> {x \in tos : x.id # tm}]
    ELSE [timer |-> tm, timeouts |-> tos]

\* mutation: a fire whose append succeeded leaves the count of errors
fireJobSettleErrorsKept(j, currentMs, ok) ==
    LET errs == IF ok THEN j.consecutiveErrors ELSE j.consecutiveErrors + 1
        j1 == [j EXCEPT !.lastStatus = IF ok THEN "ok" ELSE "error",
                        !.consecutiveErrors = errs]
    IN IF j.schedule.kind = "at"
       THEN [j1 EXCEPT !.enabled = FALSE, !.nextRunAtMs = Null]
       ELSE IF errs > 0
       THEN [j1 EXCEPT !.nextRunAtMs = currentMs + errorBackoffMs(errs)]
       ELSE [j1 EXCEPT !.nextRunAtMs = computeNextRun(j.schedule, currentMs)]

\* fireJob after its await
fireJobSettle(j, currentMs, ok) ==
    LET errs == IF ok THEN 0 ELSE j.consecutiveErrors + 1
        j1 == [j EXCEPT !.lastStatus = IF ok THEN "ok" ELSE "error",
                        !.consecutiveErrors = errs]
    IN IF j.schedule.kind = "at"
       THEN [j1 EXCEPT !.enabled = FALSE, !.nextRunAtMs = Null]
       ELSE IF errs > 0
       THEN [j1 EXCEPT !.nextRunAtMs = currentMs + errorBackoffMs(errs)]
       ELSE [j1 EXCEPT !.nextRunAtMs = computeNextRun(j.schedule, currentMs)]

\* what fireJob appends
FirePayload(j) == <<j.id, j.name, j.payload>>
Attempt(a, j, listed, s) ==
    [job |-> a, id |-> j.id, name |-> j.name, payload |-> j.payload,
     enabled |-> j.enabled, next |-> j.nextRunAtMs, listed |-> listed, seq |-> s]
Listed(a, js) == \E i \in 1..Len(js) : js[i] = a

\* writeFile's write of data at offset 0 of a file that holds old.  The text
\* of a document grows with its jobs; of two documents with as many jobs
\* either may be the longer.
WriteOver(old, data) ==
    IF old.k = "empty" \/ old = data THEN {data}
    ELSE IF old.k = "mixed" THEN {data, MixedFile}
    ELSE IF Len(data.jobs) > Len(old.jobs) THEN {data}
    ELSE IF Len(data.jobs) < Len(old.jobs) THEN {MixedFile}
    ELSE {data, MixedFile}

logRest == <<listeners, typeListeners, regs, up, crashes, bufferSize, ackedMax, rejected,
             lastFan, lastFanSeq>>

cronRest == <<now, stopped, started, storeIno, tmpIno, inodes, usedIds,
              restarts, saveFailed>>

\* a call of the engine's interface is made
Call == callsLeft > 0 /\ callsLeft' = callsLeft - 1

NewJob(id, name, schedule, payload, enabled, currentMs) ==
    [id |-> id, name |-> name, enabled |-> enabled, schedule |-> schedule,
     payload |-> payload, nextRunAtMs |-> computeNextRun(schedule, currentMs),
     lastRunAtMs |-> Null, lastStatus |-> "", consecutiveErrors |-> 0,
     createdAt |-> currentMs]

\* the assignments of update
applyPatch(j, patch, currentMs) ==
    LET j1 == IF patch.name # "" THEN [j EXCEPT !.name = patch.name] ELSE j
        j2 == IF patch.payload # "" THEN [j1 EXCEPT !.payload = patch.payload] ELSE j1
        j3 == IF patch.enabled # "" THEN [j2 EXCEPT !.enabled = (patch.enabled = "true")] ELSE j2
    IN IF patch.schedule # <<>>
       THEN [j3 EXCEPT !.schedule = patch.schedule[1],
                       !.nextRunAtMs = computeNextRun(patch.schedule[1], currentMs),
                       !.consecutiveErrors = 0]
       ELSE j3

\* mutation: only a null nextRunAtMs is recomputed
recomputeNullOnly(j, currentMs) ==
    IF ~j.enabled THEN j
    ELSE IF j.nextRunAtMs = Null
    THEN LET nx == computeNextRun(j.schedule, currentMs) IN
         [j EXCEPT !.nextRunAtMs = nx,
                   !.enabled = IF j.schedule.kind = "at" /\ nx = Null THEN FALSE ELSE @]
    ELSE j

\* the loop of start over the loaded jobs
recompute(j, currentMs) ==
    IF ~j.enabled THEN j
    ELSE IF j.nextRunAtMs = Null \/ j.nextRunAtMs < currentMs
    THEN LET nx == computeNextRun(j.schedule, currentMs) IN
         [j EXCEPT !.nextRunAtMs = nx,
                   !.enabled = IF j.schedule.kind = "at" /\ nx = Null THEN FALSE ELSE @]
    ELSE j

Replace(os, o, o2) == (os \ {o}) \cup {o2}

\* add(params), to its await in save: what it does to the engine
addJobTo(name, schedule, payload, enabled) ==
    LET id == FreshIn(usedIds)
        a == FreshIn(DOMAIN heap)
    IN /\ heap' = [x \in DOMAIN heap \cup {a} |->
                     IF x = a THEN NewJob(id, name, schedule, payload, enabled, now)
                     ELSE heap[x]]
       /\ jobs' = Append(jobs, a)
       /\ usedIds' = usedIds \cup {id}
       /\ ops' = ops \cup {NewOp(FreshIn(OpIds), "add", "mkdir")}
       /\ UNCHANGED <<now, timer, timeouts, stopped, started, storeIno, tmpIno,
                      inodes, restarts, saveFailed, lastCall>>

\* add(params), called from outside the consumers
addJob(name, schedule, payload, enabled) ==
    /\ addJobTo(name, schedule, payload, enabled)
    /\ UNCHANGED <<logVars, consVars, fireBudget>>

add ==
    /\ Quiet
    /\ Call
    /\ Cardinality(ops) < MaxOps
    /\ Cardinality(usedIds) < MaxJobs
    /\ \E name \in Names, schedule \in Schedules, payload \in Payloads, enabled \in BOOLEAN :
        addJob(name, schedule, payload, enabled)

\* the caller builds its job list first: add is awaited, before any other call
addAwaited ==
    /\ ops = {}
    /\ callsLeft = MaxCalls
    /\ now = 0
    /\ Cardinality(usedIds) < MaxJobs
    /\ \E name \in Names, schedule \in Schedules, payload \in Payloads :
        addJob(name, schedule, payload, TRUE)
    /\ UNCHANGED callsLeft

\* the ids a caller passes: those add has returned and one it never returned
CallIds == usedIds \cup {FreshIn(usedIds)}

\* throw new Error(`cron job not found: ${id}`), before anything else is done
notFound(id) ==
    /\ lastCall' = [n |-> lastCall.n + 1, id |-> id, err |-> id]
    /\ UNCHANGED <<jobs, heap, ops, timer, timeouts, cronRest, logVars>>

\* the caller builds a list of one-shot jobs
AtSchedules ==
    { [kind |-> "at", expr |-> <<1000>>],
      [kind |-> "at", expr |-> <<0>>] }
addOneShot ==
    /\ ops = {}
    /\ callsLeft = MaxCalls
    /\ now = 0
    /\ Cardinality(usedIds) < MaxJobs
    /\ \E schedule \in AtSchedules : addJob("j", schedule, "p", TRUE)
    /\ UNCHANGED callsLeft

\* the caller adds one repeating job
RepeatSchedules ==
    { [kind |-> "every", expr |-> <<0, 0, 1>>],
      [kind |-> "cron", expr |-> EveryMinute] }
addRepeating ==
    /\ ops = {}
    /\ usedIds = {}
    /\ \E schedule \in RepeatSchedules : addJob("j", schedule, "p", TRUE)
    /\ UNCHANGED callsLeft

\* update(id, patch) of the job at a, to its await in save: what it does to
\* the engine
updateJob(a, id, patch) ==
    /\ lastCall' = [n |-> lastCall.n + 1, id |-> id, err |-> Null]
    /\ heap' = [heap EXCEPT ![a] = applyPatch(@, patch, now)]
    /\ ops' = ops \cup {NewOp(FreshIn(OpIds), "update", "mkdir")}
    /\ UNCHANGED <<jobs, timer, timeouts, cronRest>>

\* update(id, patch), to its await in save
update ==
    /\ Quiet
    /\ Call
    /\ \E id \in CallIds, patch \in Patches :
        LET a == Find(jobs, heap, id) IN
        IF a = 0 THEN notFound(id)
        ELSE /\ Cardinality(ops) < MaxOps
             /\ updateJob(a, id, patch)
             /\ UNCHANGED logVars
    /\ UNCHANGED <<consVars, fireBudget>>

\* remove(id), to its await in save
remove ==
    /\ Quiet
    /\ Call
    /\ \E id \in CallIds :
        LET idx == findIndex(jobs, heap, id) IN
        IF idx = 0 THEN notFound(id)
        ELSE /\ Cardinality(ops) < MaxOps
             /\ lastCall' = [n |-> lastCall.n + 1, id |-> id, err |-> Null]
             /\ jobs' = splice(jobs, idx)
             /\ ops' = ops \cup {NewOp(FreshIn(OpIds), "remove", "mkdir")}
             /\ heap' = GcHeap(heap, jobs', ops')
             /\ UNCHANGED <<timer, timeouts, cronRest, logVars>>
    /\ UNCHANGED <<consVars, fireBudget>>

\* runNow(id), to the await of fireJob on append
runNowOf(id) ==
    LET a == Find(jobs, heap, id)
        oid == FreshIn(OpIds)
    IN IF a = 0 THEN notFound(id)
       ELSE /\ Cardinality(ops) < MaxOps
            /\ Planned < fireBudget
            /\ lastCall' = [n |-> lastCall.n + 1, id |-> id, err |-> Null]
            /\ heap' = [heap EXCEPT ![a].lastRunAtMs = now]
            /\ AppendBegin(oid, "cron.fire", FirePayload(heap[a]))
            /\ ops' = ops \cup {[NewOp(oid, "runNow", "fire") EXCEPT
                                   !.job = a, !.cur = now,
                                   !.att = <<Attempt(a, heap[a], TRUE, seq')>>]}
            /\ UNCHANGED <<file, buffer, logRest, jobs, timer, timeouts, cronRest>>

runNow ==
    /\ Quiet
    /\ Call
    /\ \E id \in CallIds : runNowOf(id)
    /\ UNCHANGED <<consVars, fireBudget>>

\* the caller awaits each runNow before the next call
runNowAwaited ==
    /\ ops = {}
    /\ \E id \in usedIds : runNowOf(id)
    /\ UNCHANGED <<callsLeft, consVars, fireBudget>>

\* a setTimeout callback runs: onTick, to its first await
onTick ==
    /\ Quiet
    /\ Cardinality(ops) < MaxOps
    /\ \E t \in timeouts :
        /\ t.at <= now
        /\ timeouts' = timeouts \ {t}
        /\ timer' = Null
        /\ IF stopped THEN UNCHANGED <<ops, heap, logVars>>
           ELSE LET due == dueJobs(jobs, heap, now)
                    oid == FreshIn(OpIds)
                IN IF due = <<>>
                   THEN /\ ops' = ops \cup {NewOp(oid, "tick", "mkdir")}
                        /\ UNCHANGED <<heap, logVars>>
                   ELSE /\ Planned + Len(due) <= fireBudget
                        /\ heap' = [heap EXCEPT ![due[1]].lastRunAtMs = now]
                        /\ AppendBegin(oid, "cron.fire", FirePayload(heap[due[1]]))
                        /\ ops' = ops \cup {[NewOp(oid, "tick", "fire") EXCEPT
                                               !.job = due[1], !.due = due, !.idx = 1,
                                               !.cur = now,
                                               !.att = <<Attempt(due[1], heap[due[1]], TRUE, seq')>>]}
                        /\ UNCHANGED <<file, buffer, logRest>>
    /\ UNCHANGED <<callsLeft, lastCall, jobs, cronRest, consVars, fireBudget>>

\* the append of a fireJob resolves
appendResolved ==
    /\ Quiet
    /\ \E o \in ops, p \in pend :
        /\ o.pc = "fire"
        /\ p.owner = o.id
        /\ AppendResumeOf(p)
        /\ ops' = Replace(ops, o, [o EXCEPT !.pc = "fired", !.res = "ok"])
    /\ UNCHANGED <<callsLeft, lastCall, file, seq, listeners, typeListeners, regs, up, crashes, bufferSize,
                   jobs, heap, timer, timeouts, cronRest, consVars, fireBudget>>

\* the append of a fireJob rejects
appendRejected ==
    /\ Quiet
    /\ \E o \in ops, p \in pend :
        /\ o.pc = "fire"
        /\ p.owner = o.id
        /\ AppendFailOf(p)
        /\ file' = file
        /\ ops' = Replace(ops, o, [o EXCEPT !.pc = "fired", !.res = "err"])
    /\ UNCHANGED <<callsLeft, lastCall, seq, listeners, typeListeners, regs, up, crashes, bufferSize, ackedMax, lastFan,
                   lastFanSeq, jobs, heap, timer, timeouts, cronRest, consVars, fireBudget>>

\* whether the loop of onTick goes on after the job at idx
MoreDue(o) == o.kind = "tick" /\ o.idx < Len(o.due)

\* fireJob after its await, and its caller to the next await: the next
\* fireJob of the loop of onTick, or save
fireJobResume ==
    /\ \E o \in ops :
        /\ o.pc = "fired"
        /\ LET h1 == [heap EXCEPT ![o.job] = fireJobSettle(@, o.cur, o.res = "ok")] IN
           IF MoreDue(o)
           THEN LET b == o.due[o.idx + 1] IN
                /\ heap' = [h1 EXCEPT ![b].lastRunAtMs = o.cur]
                /\ AppendBegin(o.id, "cron.fire", FirePayload(h1[b]))
                /\ ops' = Replace(ops, o,
                       [o EXCEPT !.pc = "fire", !.res = "", !.job = b, !.idx = o.idx + 1,
                                 !.att = Append(o.att, Attempt(b, h1[b], Listed(b, jobs), seq'))])
                /\ UNCHANGED <<file, buffer, logRest>>
           ELSE IF o.kind = "tick" /\ stopped
           THEN /\ ops' = ops \ {o}
                /\ heap' = GcHeap(h1, jobs, ops')
                /\ UNCHANGED logVars
           ELSE /\ ops' = Replace(ops, o, NewOp(o.id, o.kind, "mkdir"))
                /\ heap' = GcHeap(h1, jobs, ops')
                /\ UNCHANGED logVars
    /\ UNCHANGED <<callsLeft, lastCall, jobs, timer, timeouts, cronRest, consVars, fireBudget>>

\* save: mkdir has resolved; JSON.stringify({ jobs }) and the call of writeFile
mkdirDone ==
    /\ Quiet
    /\ \E o \in ops :
        /\ o.pc = "mkdir"
        /\ ops' = Replace(ops, o, [o EXCEPT !.pc = "open", !.snap = Doc(jobs, heap)])
    /\ UNCHANGED <<callsLeft, lastCall, jobs, heap, timer, timeouts, cronRest, logVars, consVars, fireBudget>>

\* writeFile opens the temp file: created, or truncated when it exists
writeOpen ==
    /\ Quiet
    /\ \E o \in ops :
        /\ o.pc = "open"
        /\ LET n == IF tmpIno = 0 THEN FreshIn(DOMAIN inodes) ELSE tmpIno IN
            /\ tmpIno' = n
            /\ inodes' = [x \in DOMAIN inodes \cup {n} |->
                            IF x = n THEN EmptyFile ELSE inodes[x]]
            /\ ops' = Replace(ops, o, [o EXCEPT !.pc = "write", !.fd = n])
    /\ UNCHANGED <<callsLeft, lastCall, now, jobs, heap, timer, timeouts, stopped, started, storeIno,
                   usedIds, restarts, saveFailed, logVars, consVars, fireBudget>>

\* writeFile writes the document through its descriptor and closes it
writeData ==
    /\ Quiet
    /\ \E o \in ops :
        /\ o.pc = "write"
        /\ ops' = Replace(ops, o, [o EXCEPT !.pc = "rename", !.fd = 0, !.snap = EmptyFile])
        /\ \E c \in WriteOver(inodes[o.fd], o.snap) :
            inodes' = GcInodes([inodes EXCEPT ![o.fd] = c], storeIno, tmpIno, ops')
    /\ UNCHANGED <<callsLeft, lastCall, now, jobs, heap, timer, timeouts, stopped, started, storeIno,
                   tmpIno, usedIds, restarts, saveFailed, logVars, consVars, fireBudget>>

\* what the caller of save does when save has resolved
AfterSave(kind, tm, tos, js, h, stp, t) ==
    IF kind \in {"add", "update"}
    THEN LET c == clearTimer(tm, tos) IN armTimer(c.timer, c.timeouts, js, h, stp, t)
    ELSE IF kind \in {"tick", "start"}
    THEN armTimer(tm, tos, js, h, stp, t)
    ELSE [timer |-> tm, timeouts |-> tos]

\* rename(tmp, storePath) and the rest of the call: with no temp file the
\* rename fails and the call rejects
renameDone ==
    /\ Quiet
    /\ \E o \in ops :
        /\ o.pc = "rename"
        /\ ops' = ops \ {o}
        /\ IF tmpIno = 0
           THEN /\ saveFailed' = TRUE
                /\ UNCHANGED <<storeIno, tmpIno, inodes, timer, timeouts>>
           ELSE /\ storeIno' = tmpIno
                /\ tmpIno' = 0
                /\ inodes' = GcInodes(inodes, storeIno', tmpIno', ops')
                /\ LET r == AfterSave(o.kind, timer, timeouts, jobs, heap, stopped, now) IN
                    /\ timer' = r.timer
                    /\ timeouts' = r.timeouts
                /\ UNCHANGED saveFailed
    /\ UNCHANGED <<callsLeft, lastCall, now, jobs, heap, stopped, started, usedIds, restarts,
                   logVars, consVars, fireBudget>>

\* start(), to its await in load
start ==
    /\ Quiet
    /\ Call
    /\ ~started
    /\ Cardinality(ops) < MaxOps
    /\ started' = TRUE
    /\ ops' = ops \cup {NewOp(FreshIn(OpIds), "start", "load")}
    /\ UNCHANGED <<now, jobs, heap, timer, timeouts, stopped, storeIno, tmpIno,
                   inodes, usedIds, restarts, saveFailed, lastCall, logVars, consVars, fireBudget>>

\* the k-th address that is not in use
RECURSIVE FreshSeq(_, _)
FreshSeq(used, n) ==
    IF n = 0 THEN <<>>
    ELSE LET a == FreshIn(used) IN <<a>> \o FreshSeq(used \cup {a}, n - 1)

\* readFile has resolved: the rest of load, the loop of start, to the await
\* in save.  A file that is no document makes JSON.parse throw: start rejects.
loadDone ==
    /\ Quiet
    /\ \E o \in ops :
        /\ o.pc = "load"
        /\ IF storeIno = 0
           THEN /\ jobs' = <<>>
                /\ ops' = Replace(ops, o, [o EXCEPT !.pc = "mkdir", !.cur = now])
                /\ heap' = GcHeap(heap, jobs', ops')
           ELSE IF inodes[storeIno].k # "doc"
           THEN /\ ops' = ops \ {o}
                /\ UNCHANGED <<jobs, heap>>
           ELSE LET data == inodes[storeIno].jobs
                    addrs == FreshSeq(DOMAIN heap, Len(data))
                    h1 == [x \in DOMAIN heap \cup {addrs[i] : i \in 1..Len(addrs)} |->
                             IF x \in DOMAIN heap THEN heap[x]
                             ELSE recompute(data[CHOOSE i \in 1..Len(addrs) : addrs[i] = x], now)]
                IN /\ jobs' = addrs
                   /\ ops' = Replace(ops, o, [o EXCEPT !.pc = "mkdir", !.cur = now])
                   /\ heap' = GcHeap(h1, jobs', ops')
    /\ UNCHANGED <<callsLeft, lastCall, timer, timeouts, cronRest, logVars, consVars, fireBudget>>

\* stop()
stop ==
    /\ Quiet
    /\ Call
    /\ ~stopped
    /\ stopped' = TRUE
    /\ LET c == clearTimer(timer, timeouts) IN
        /\ timer' = c.timer
        /\ timeouts' = c.timeouts
    /\ UNCHANGED <<now, jobs, heap, started, storeIno, tmpIno, inodes, ops,
                   usedIds, restarts, saveFailed, lastCall, logVars, consVars, fireBudget>>

\* time passes
advanceClock ==
    /\ Quiet
    /\ now < MaxClockSteps * 1000
    /\ now' = now + 1000
    /\ UNCHANGED <<callsLeft, lastCall, jobs, heap, timer, timeouts, stopped, started, storeIno, tmpIno,
                   inodes, ops, usedIds, restarts, saveFailed, logVars, consVars, fireBudget>>

\* the process ends at any point and a new one creates the log and the
\* engine on the same files (its temp file has another name: another pid)
restart ==
    /\ restarts < MaxRestarts
    /\ restarts' = restarts + 1
    /\ jobs' = <<>>
    /\ heap' = <<>>
    /\ timer' = Null
    /\ timeouts' = {}
    /\ stopped' = FALSE
    /\ started' = FALSE
    /\ ops' = {}
    /\ tmpIno' = 0
    /\ inodes' = GcInodes(inodes, storeIno, 0, {})
    /\ saveFailed' = FALSE
    /\ pend' = {}
    /\ seq' = RecoverSeq(file)
    /\ buffer' = RecoverBuffer(file, bufferSize)
    /\ rejected' = {}
    /\ serial' = FALSE
    /\ ackLog' = <<>>
    /\ UNCHANGED <<callsLeft, lastCall, file, listeners, typeListeners, regs, up, crashes, bufferSize, ackedMax, lastFan,
                   lastFanSeq, now, storeIno, usedIds, consVars, fireBudget>>

CronNext ==
    \/ addAwaited
    \/ stop
    \/ add
    \/ update
    \/ remove
    \/ runNow
    \/ onTick
    \/ DiskWrite
    \/ appendResolved
    \/ appendRejected
    \/ fireJobResume
    \/ mkdirDone
    \/ writeOpen
    \/ writeData
    \/ renameDone
    \/ advanceClock

\* one-shot jobs, the timer and one runNow
OneShotInit == EngineInit /\ callsLeft = MaxCalls /\ fireBudget = MaxOneShotFires
OneShotNext ==
    \/ addOneShot
    \/ runNow
    \/ onTick
    \/ DiskWrite
    \/ appendResolved
    \/ appendRejected
    \/ fireJobResume
    \/ mkdirDone
    \/ writeOpen
    \/ writeData
    \/ renameDone
    \/ advanceClock

\* one repeating job fired again and again, each fire awaited
BackoffInit == EngineInit /\ callsLeft = 0 /\ fireBudget = MaxBackoffFires
BackoffNext ==
    \/ addRepeating
    \/ runNowAwaited
    \/ DiskWrite
    \/ appendResolved
    \/ appendRejected
    \/ fireJobResume
    \/ mkdirDone
    \/ writeOpen
    \/ writeData
    \/ renameDone
    \/ advanceClock

\* the store alone: overlapping calls that save, restarts, start
StoreNext ==
    \/ start
    \/ loadDone
    \/ add
    \/ update
    \/ remove
    \/ mkdirDone
    \/ writeOpen
    \/ writeData
    \/ renameDone
    \/ restart
    \/ advanceClock

\* ------------------------------------------------------------ consumers
\* the cron listener and the heartbeat, subscribers of 'cron.fire'
HEARTBEAT_JOB_NAME == "__heartbeat__"
Consumers == {"listener", "heartbeat"}
FireNames == {"j", HEARTBEAT_JOB_NAME}

\* ---- texts.  A text is a sequence of lines; a line is blank (white space
\* only), a line that holds `STATUS: v`, `REASON: v` or `CONTENT: v` and
\* nothing else, or a line of other words v.
Blank == [k |-> "blank", v |-> ""]
StatusLine(v) == [k |-> "status", v |-> v]
ReasonLine(v) == [k |-> "reason", v |-> v]
ContentLine(v) == [k |-> "content", v |-> v]
TextLine(v) == [k |-> "text", v |-> v]

\* String.prototype.trim
RECURSIVE trimStart(_)
trimStart(s) == IF s # <<>> /\ Head(s) = Blank THEN trimStart(Tail(s)) ELSE s
RECURSIVE trimEnd(_)
trimEnd(s) ==
    IF s # <<>> /\ s[Len(s)] = Blank THEN trimEnd(SubSeq(s, 1, Len(s) - 1)) ELSE s
trim(s) == trimEnd(trimStart(s))

HeartbeatStatuses == {"HEARTBEAT_OK", "CHAT_YES", "CHAT_NO"}
toUpperCase(v) ==
    CASE v = "heartbeat_ok" -> "HEARTBEAT_OK"
      [] v = "chat_yes" -> "CHAT_YES"
      [] v = "chat_no" -> "CHAT_NO"
      [] OTHER -> v

\* /^\s*CONTENT:\s*(.+)/ims at the CONTENT line i of s, a trimmed text: the
\* group is what follows `CONTENT:` up to the end of the text, white space
\* and line ends skipped first
ContentFrom(s, i) ==
    IF s[i].v # "" THEN <<TextLine(s[i].v)>> \o SubSeq(s, i + 1, Len(s))
    ELSE trimStart(SubSeq(s, i + 1, Len(s)))

\* mutation: a reply without a STATUS line is taken as nothing to report
parseNoFailOpen(raw) ==
    LET trimmed == trim(raw)
        st == {i \in 1..Len(trimmed) :
                 trimmed[i].k = "status" /\ toUpperCase(trimmed[i].v) \in HeartbeatStatuses}
        rs == {i \in 1..Len(trimmed) : trimmed[i].k = "reason"}
        cs == {i \in 1..Len(trimmed) :
                 trimmed[i].k = "content" /\ (trimmed[i].v # "" \/ i < Len(trimmed))}
    IN IF trimmed = <<>> \/ st = {}
       THEN [status |-> "HEARTBEAT_OK", reason |-> "empty response", content |-> <<>>,
             unparsed |-> FALSE]
       ELSE [status |-> toUpperCase(trimmed[SetMin(st)].v),
             reason |-> IF rs = {} THEN "" ELSE trimmed[SetMin(rs)].v,
             content |-> IF cs = {} THEN <<>> ELSE ContentFrom(trimmed, SetMin(cs)),
             unparsed |-> FALSE]

\* parseHeartbeatResponse: the first line the STATUS expression matches, the
\* first REASON line, the first CONTENT line with something after it
parseHeartbeatResponse(raw) ==
    LET trimmed == trim(raw)
        st == {i \in 1..Len(trimmed) :
                 trimmed[i].k = "status" /\ toUpperCase(trimmed[i].v) \in HeartbeatStatuses}
        rs == {i \in 1..Len(trimmed) : trimmed[i].k = "reason"}
        cs == {i \in 1..Len(trimmed) :
                 trimmed[i].k = "content" /\ (trimmed[i].v # "" \/ i < Len(trimmed))}
    IN IF trimmed = <<>>
       THEN [status |-> "HEARTBEAT_OK", reason |-> "empty response", content |-> <<>>,
             unparsed |-> FALSE]
       ELSE IF st = {}
       THEN [status |-> "CHAT_YES", reason |-> "unparsed response", content |-> trimmed,
             unparsed |-> TRUE]
       ELSE [status |-> toUpperCase(trimmed[SetMin(st)].v),
             reason |-> IF rs = {} THEN "" ELSE trimmed[SetMin(rs)].v,
             content |-> IF cs = {} THEN <<>> ELSE ContentFrom(trimmed, SetMin(cs)),
             unparsed |-> FALSE]

\* what the modelled engine answers
BasicReplies ==
    { <<StatusLine("HEARTBEAT_OK")>>,
      <<TextLine("m")>> }
Replies ==
    BasicReplies \cup
    { <<>>,
      <<StatusLine("CHAT_YES"), ContentLine("m")>>,
      <<Blank>>,
      <<StatusLine("CHAT_NO"), ReasonLine("r")>>,
      <<StatusLine("chat_yes"), ReasonLine("r"), ContentLine("n")>>,
      <<StatusLine("CHAT_YES"), ReasonLine("r")>>,
      <<StatusLine("CHAT_YES"), ContentLine("")>>,
      <<Blank, TextLine("m"), Blank>>,
      <<StatusLine("MAYBE"), ContentLine("m")>> }

\* what a rejected engine call and a rejected append throw
EngineErrors == {<<TextLine("engine down")>>}
AppendError == <<TextLine("EIO")>>

\* ---- active hours.  "HH:MM" is <<h, m>>; a text the expression of
\* parseHHMM does not match is <<>>
parseHHMM(s) ==
    IF Len(s) # 2 THEN Null
    ELSE IF s[1] > 23 \/ s[2] > 59 THEN Null
    ELSE s[1] * 60 + s[2]

\* currentMinutesInTimezone, the zone of the clock being UTC
currentMinutesInTimezone(nowMs) == HourOf(nowMs) * 60 + MinuteOf(nowMs)

\* mutation: a range is never taken as overnight
isWithinSameDay(activeHours, nowMs) ==
    IF activeHours = <<>> THEN TRUE
    ELSE LET startMinutes == parseHHMM(activeHours[1])
             endMinutes == parseHHMM(activeHours[2])
             nowMinutes == currentMinutesInTimezone(nowMs)
         IN IF startMinutes = Null \/ endMinutes = Null THEN TRUE
            ELSE nowMinutes >= startMinutes /\ nowMinutes < endMinutes

\* isWithinActiveHours: activeHours is <<>> (null) or <<start, end>>
isWithinActiveHours(activeHours, nowMs) ==
    IF activeHours = <<>> THEN TRUE
    ELSE LET startMinutes == parseHHMM(activeHours[1])
             endMinutes == parseHHMM(activeHours[2])
             nowMinutes == currentMinutesInTimezone(nowMs)
         IN IF startMinutes = Null \/ endMinutes = Null THEN TRUE
            ELSE IF startMinutes <= endMinutes
            THEN nowMinutes >= startMinutes /\ nowMinutes < endMinutes
            ELSE nowMinutes >= startMinutes \/ nowMinutes < endMinutes

\* the windows the modelled heartbeat is configured with
ActiveHoursChoices ==
    { <<>>,
      <<<<0, 0>>, <<12, 0>>>>,
      <<<<12, 0>>, <<0, 1>>>>,
      <<<<12, 0>>, <<12, 0>>>>,
      <<<<9, 0>>, <<24, 0>>>> }

\* ---- HeartbeatDedup
DedupWindowMs == 86400000
\* mutation: whatever was sent last is a duplicate for ever
isDuplicateForEver(d, text, nowMs) == d.hasText /\ text = d.lastText
isDuplicate(d, text, nowMs) ==
    IF ~d.hasText THEN FALSE
    ELSE IF text # d.lastText THEN FALSE
    ELSE nowMs - d.lastSentAt < DedupWindowMs
record(d, text, nowMs) ==
    [d EXCEPT !.hasText = TRUE, !.lastText = text, !.lastSentAt = nowMs]

\* ---- the guards of handleFire
Matches(c, jobName) ==
    IF c = "heartbeat" THEN jobName = HEARTBEAT_JOB_NAME
    ELSE jobName # HEARTBEAT_JOB_NAME
\* mutation: the guard on processing is gone
BusyNever(processing) == FALSE
Busy(processing) == processing

\* the state after createCronListener and createHeartbeat
ConsStartWith(enabled) ==
    /\ cons = [c \in Consumers |-> [processing |-> FALSE, sub |-> ""]]
    /\ invs = {}
    /\ asked = {}
    /\ dropped = {}
    /\ delivs = <<>>
    /\ outcomes = {}
    /\ hb = [enabled |-> enabled, jobId |-> Null, hasText |-> FALSE, lastText |-> <<>>,
             lastSentAt |-> 0]
    /\ hbCalls = {}
    /\ hbFile = ""
    /\ hbLast = [n |-> 0, kind |-> "", b |-> FALSE, ok |-> FALSE]

\* config.enabled is false
ConsStart == ConsStartWith(FALSE)

\* no active hours, a few replies
ConsInit == ConsStart /\ cfg = [activeHours |-> <<>>, replies |-> BasicReplies]

\* the callbacks a consumer passes to subscribeType: each call makes a closure
Callbacks(c) == IF c = "heartbeat" THEN <<"heartbeat", "heartbeat#2">>
                ELSE <<"listener", "listener#2">>
OwnerOf(cb) == CHOOSE c \in Consumers : InSeq(cb, Callbacks(c))
NewCallback(c, tl) == IF InSeq(Callbacks(c)[1], tl) THEN Callbacks(c)[2] ELSE Callbacks(c)[1]

Inv(id, c, e, startMs) ==
    [id |-> id, c |-> c, fire |-> e.seq, jobId |-> e.payload[1], jobName |-> e.payload[2],
     prompt |-> e.payload[3], pc |-> "ask", start |-> startMs, dur |-> 0,
     raw |-> <<>>, text |-> <<>>, reason |-> ""]
InvIds == {i.id : i \in invs} \cup {p.owner : p \in pend}
NewPending(owner, type, payload, s) ==
    [e |-> [seq |-> s, type |-> type, payload |-> payload], owner |-> owner, st |-> "writing"]

\* the events a consumer appends: cron.done {jobId, jobName, reply,
\* durationMs}, cron.error {jobId, jobName, error, durationMs},
\* heartbeat.done {durationMs, reason, reply, delivered (1 or 0)},
\* heartbeat.error {error, durationMs}, heartbeat.skip {reason}
DoneType(c) == IF c = "heartbeat" THEN "heartbeat.done" ELSE "cron.done"
\* mutation: a failure is logged as a completion
ErrorTypeDone(c) == DoneType(c)
ErrorType(c) == IF c = "heartbeat" THEN "heartbeat.error" ELSE "cron.error"
DonePayload(i, delivered, t) ==
    IF i.c = "heartbeat" THEN <<i.dur, i.reason, i.text, delivered>>
    ELSE <<i.jobId, i.jobName, i.text, t - i.start>>
ErrorPayload(i, err, t) ==
    IF i.c = "heartbeat" THEN <<err, t - i.start>>
    ELSE <<i.jobId, i.jobName, err, t - i.start>>

\* the invocation i calls eventLog.append and waits for it
InvAppend(i, p, type, payload, pc) ==
    /\ seq' = NextSeq(seq)
    /\ pend' = (pend \ p) \cup {NewPending(i.id, type, payload, seq')}
    /\ invs' = (invs \ {i}) \cup {[i EXCEPT !.pc = pc]}

\* mutation: the guard stays set when the invocation ends
keepGuard(processing) == processing
\* finally { processing = false }
releaseGuard(processing) == FALSE
InvEnd(i) ==
    /\ invs' = invs \ {i}
    /\ cons' = [cons EXCEPT ![i.c].processing = releaseGuard(@)]

lsnGhost == <<ackLog, serial>>
bootVars == <<hbCalls, hbFile, hbLast>>

\* eventLog.subscribeType('cron.fire', callback) by the consumer c
subscribeFire(c) ==
    LET cb == NewCallback(c, typeListeners["cron.fire"]) IN
    /\ cons' = [cons EXCEPT ![c].sub = cb]
    /\ typeListeners' = [typeListeners EXCEPT !["cron.fire"] = SetAdd(@, cb)]
    /\ regs' = Append(regs, <<cb, "cron.fire">>)

\* mutation: the callback stays registered
unsubscribeKeeps(cb, tl) == tl
\* the function subscribeType returned: set.delete(callback)
unsubscribeFrom(cb, tl) == Remove(cb, tl)

\* unsubscribe?.(); unsubscribe = null
stopConsumer(c) ==
    /\ cons' = [cons EXCEPT ![c].sub = ""]
    /\ typeListeners' = IF cons[c].sub = "" THEN typeListeners
                        ELSE [typeListeners EXCEPT
                                !["cron.fire"] = unsubscribeFrom(cons[c].sub, @)]
    /\ regs' = IF typeListeners' = typeListeners THEN regs
               ELSE Remove(<<cons[c].sub, "cron.fire">>, regs)

\* listener.start()
listenerStart ==
    /\ cons["listener"].sub = ""
    /\ subscribeFire("listener")
    /\ UNCHANGED <<file, seq, buffer, listeners, pend, up, crashes, bufferSize, ackLog, ackedMax,
                   rejected, lastFan, lastFanSeq, serial, cronVars, invs, asked, dropped,
                   cfg, delivs, outcomes, hb, bootVars>>

\* listener.stop()
listenerStop ==
    /\ cons["listener"].sub # ""
    /\ stopConsumer("listener")
    /\ UNCHANGED <<file, seq, buffer, listeners, pend, up, crashes, bufferSize, ackLog, ackedMax,
                   rejected, lastFan, lastFanSeq, serial, cronVars, invs, asked, dropped,
                   cfg, delivs, outcomes, hb, bootVars>>

\* the heartbeat subscribes, at the end of an awaited start()
heartbeatSubscribe ==
    /\ cons["heartbeat"].sub = ""
    /\ hbCalls = {}
    /\ subscribeFire("heartbeat")
    /\ UNCHANGED <<file, seq, buffer, listeners, pend, up, crashes, bufferSize, ackLog, ackedMax,
                   rejected, lastFan, lastFanSeq, serial, cronVars, invs, asked, dropped,
                   cfg, delivs, outcomes, hb, bootVars>>

\* heartbeat.stop()
heartbeatStop ==
    /\ cons["heartbeat"].sub # ""
    /\ stopConsumer("heartbeat")
    /\ UNCHANGED <<file, seq, buffer, listeners, pend, up, crashes, bufferSize, ackLog, ackedMax,
                   rejected, lastFan, lastFanSeq, serial, cronVars, invs, asked, dropped,
                   cfg, delivs, outcomes, hb, bootVars>>

\* a job fires: the append of fireJob
fireAppend ==
    /\ seq < MaxLsnSeq
    /\ \E name \in FireNames : AppendBegin(Client, "cron.fire", <<1, name, "p">>)
    /\ UNCHANGED <<file, buffer, logRest, cronVars, consVars>>

\* the callbacks of the consumer c among those a fan-out calls
CallsOf(c, called) == {k \in 1..Len(called) : InSeq(called[k], Callbacks(c))}

\* the append of a cron.fire goes on after its await: buffer, fan-out, and in
\* the fan-out handleFire of each subscribed consumer, to its first await.
\* A second callback of the consumer finds processing set.
fireDeliveredOf(p) ==
        /\ p.st = "written"
        /\ buffer' = CommitToBuffer(TRUE, buffer, p.e, bufferSize)
        /\ LET n == Notify(FanOutOrder(listeners, typeListeners, p.e.type))
               starters == {c \in Consumers :
                              CallsOf(c, n.called) # {} /\ Matches(c, p.e.payload[2])}
           IN /\ lastFan' = n.called
              /\ lastFanSeq' = p.e.seq
              /\ ackedMax' = IF p.e.seq > ackedMax THEN p.e.seq ELSE ackedMax
              /\ IF starters = {}
                 THEN /\ pend' = pend \ {p}
                      /\ UNCHANGED <<seq, cons, invs, asked, dropped>>
                 ELSE LET c == CHOOSE x \in starters : TRUE
                          i == Inv(FreshIn(InvIds), c, p.e, now)
                      IN IF Busy(cons[c].processing)
                         THEN /\ dropped' = dropped \cup {<<c, p.e.seq>>}
                              /\ pend' = pend \ {p}
                              /\ UNCHANGED <<seq, cons, invs, asked>>
                         ELSE /\ cons' = [cons EXCEPT ![c].processing = TRUE]
                              /\ dropped' = IF Cardinality(CallsOf(c, n.called)) > 1
                                            THEN dropped \cup {<<c, p.e.seq>>}
                                            ELSE dropped
                              /\ IF c = "heartbeat" /\ ~isWithinActiveHours(cfg.activeHours, now)
                                 THEN /\ InvAppend(i, {p}, "heartbeat.skip",
                                                   <<"outside-active-hours">>, "append")
                                      /\ UNCHANGED asked
                                 ELSE /\ asked' = asked \cup {<<c, p.e.seq>>}
                                      /\ invs' = invs \cup {i}
                                      /\ pend' = pend \ {p}
                                      /\ UNCHANGED seq

fireDelivered ==
    /\ \E p \in pend : p.owner = Client /\ fireDeliveredOf(p)
    /\ UNCHANGED <<file, listeners, typeListeners, regs, up, crashes, bufferSize, rejected,
                   lsnGhost, cronVars, cfg, delivs, outcomes, hb, bootVars>>

\* mutation: what goes out is always the reply as it came
textToSendRaw(parsed, raw) == raw
\* const text = parsed.content || result.text
textToSend(parsed, raw) == IF parsed.content # <<>> THEN parsed.content ELSE raw

\* handleFire of the heartbeat after engine.askWithSession: the text it goes
\* on with, or the reason it skips for
HeartbeatVerdict(raw, d, nowMs) ==
    LET parsed == parseHeartbeatResponse(raw)
        text == textToSend(parsed, raw)
    IN IF parsed.status = "HEARTBEAT_OK" THEN [text |-> <<>>, skip |-> "ack", reason |-> parsed.reason]
       ELSE IF parsed.status = "CHAT_NO" THEN [text |-> <<>>, skip |-> "chat-no", reason |-> parsed.reason]
       ELSE IF trim(text) = <<>> THEN [text |-> <<>>, skip |-> "empty", reason |-> parsed.reason]
       ELSE IF isDuplicate(d, text, nowMs) THEN [text |-> <<>>, skip |-> "duplicate", reason |-> parsed.reason]
       ELSE [text |-> text, skip |-> "", reason |-> parsed.reason]

\* mutation: a text that is eligible is recorded, delivered or not
withoutTargetRecorded(d, text, nowMs) == record(d, text, nowMs)
\* if (target) { ... }: without a target nothing is delivered or recorded
withoutTarget(d, text, nowMs) == d

\* engine.askWithSession resolves: handleFire to its next await (target:
\* whether resolveDeliveryTarget() finds a connector)
engineResolved ==
    /\ \E i \in invs, raw \in cfg.replies, target \in BOOLEAN :
        /\ i.pc = "ask"
        /\ LET v == IF i.c = "heartbeat" THEN HeartbeatVerdict(raw, hb, now)
                    ELSE [text |-> raw, skip |-> "", reason |-> ""]
               i1 == [i EXCEPT !.raw = raw, !.text = v.text, !.reason = v.reason,
                               !.dur = IF i.c = "heartbeat" THEN now - i.start ELSE 0]
           IN /\ IF v.skip # ""
                 THEN /\ seq' = NextSeq(seq)
                      /\ pend' = pend \cup {NewPending(i.id, "heartbeat.skip", <<v.skip>>, seq')}
                      /\ invs' = (invs \ {i}) \cup {[i1 EXCEPT !.pc = "append"]}
                 ELSE IF target
                 THEN /\ invs' = (invs \ {i}) \cup {[i1 EXCEPT !.pc = "deliver"]}
                      /\ UNCHANGED <<seq, pend>>
                 ELSE /\ seq' = NextSeq(seq)
                      /\ pend' = pend \cup {NewPending(i.id, DoneType(i.c), DonePayload(i1, 0, now), seq')}
                      /\ invs' = (invs \ {i}) \cup {[i1 EXCEPT !.pc = "append"]}
              /\ hb' = IF i.c = "heartbeat" /\ v.skip = "" /\ ~target
                       THEN withoutTarget(hb, v.text, now) ELSE hb
    /\ UNCHANGED <<file, buffer, logRest, lsnGhost, cronVars, cons, asked, dropped,
                   cfg, delivs, outcomes, bootVars>>

\* engine.askWithSession rejects: the catch block appends the error event
engineRejected ==
    /\ \E i \in invs, err \in EngineErrors :
        /\ i.pc = "ask"
        /\ InvAppend(i, {}, ErrorType(i.c), ErrorPayload(i, err, now), "appendErr")
    /\ UNCHANGED <<file, buffer, logRest, lsnGhost, cronVars, cons, asked, dropped,
                   cfg, delivs, outcomes, hb, bootVars>>

\* mutation: a failed delivery goes to the catch block of handleFire
deliveryRethrown(ok) == ok
\* try { await target.deliver(text) } catch { console.warn }: whether
\* handleFire goes on after the delivery call
deliveryCaught(ok) == TRUE

\* target.deliver settles: a failure is caught and logged; the heartbeat
\* records what it has delivered; then the done event is appended
deliverDone ==
    /\ \E i \in invs, ok \in BOOLEAN :
        /\ i.pc = "deliver"
        /\ delivs' = Append(delivs, [c |-> i.c, fire |-> i.fire, text |-> i.text,
                                     ok |-> ok, at |-> now])
        /\ hb' = IF i.c = "heartbeat" /\ ok THEN record(hb, i.text, now) ELSE hb
        /\ IF deliveryCaught(ok)
           THEN InvAppend(i, {}, DoneType(i.c),
                          DonePayload(i, IF i.c = "heartbeat" /\ ok THEN 1 ELSE 0, now), "append")
           ELSE InvAppend(i, {}, ErrorType(i.c), ErrorPayload(i, AppendError, now), "appendErr")
    /\ UNCHANGED <<file, buffer, logRest, lsnGhost, cronVars, cons, asked, dropped,
                   cfg, outcomes, bootVars>>

\* the append of a result event resolves: handleFire ends
resultAppended ==
    /\ \E i \in invs, p \in pend :
        /\ p.owner = i.id
        /\ p.st = "written"
        /\ buffer' = CommitToBuffer(TRUE, buffer, p.e, bufferSize)
        /\ lastFan' = Notify(FanOutOrder(listeners, typeListeners, p.e.type)).called
        /\ lastFanSeq' = p.e.seq
        /\ ackedMax' = IF p.e.seq > ackedMax THEN p.e.seq ELSE ackedMax
        /\ pend' = pend \ {p}
        /\ outcomes' = outcomes \cup {[c |-> i.c, fire |-> i.fire, e |-> p.e]}
        /\ InvEnd(i)
    /\ UNCHANGED <<file, seq, listeners, typeListeners, regs, up, crashes, bufferSize, rejected,
                   lsnGhost, cronVars, asked, dropped, cfg, delivs, hb, bootVars>>

\* the append of a result event rejects: inside the try block the catch
\* block appends the error event; inside the catch block handleFire ends
resultAppendFailed ==
    /\ \E i \in invs, p \in pend :
        /\ p.owner = i.id
        /\ p.st = "writing"
        /\ rejected' = rejected \cup {p.e.seq}
        /\ buffer' = CommitToBuffer(FALSE, buffer, p.e, bufferSize)
        /\ IF i.pc = "append"
           THEN /\ InvAppend(i, {p}, ErrorType(i.c), ErrorPayload(i, AppendError, now),
                             "appendErr")
                /\ UNCHANGED cons
           ELSE /\ pend' = pend \ {p}
                /\ InvEnd(i)
                /\ UNCHANGED seq
    /\ UNCHANGED <<file, listeners, typeListeners, regs, up, crashes, bufferSize, ackedMax,
                   lastFan, lastFanSeq, lsnGhost, cronVars, asked, dropped, cfg, delivs,
                   outcomes, hb, bootVars>>

LsnNext ==
    \/ listenerStart
    \/ listenerStop
    \/ heartbeatSubscribe
    \/ heartbeatStop
    \/ fireAppend
    \/ DiskWrite
    \/ fireDelivered
    \/ engineResolved
    \/ engineRejected
    \/ deliverDone
    \/ resultAppended
    \/ resultAppendFailed

\* ------------------------------------------------------- specifications
\* the state after createEventLog, createCronEngine, createCronListener and
\* createHeartbeat
Init == LogInit /\ CronInit /\ ConsInit
InitStore == LogInit /\ StoreInit /\ ConsInit
InitBackoff == LogInit /\ BackoffInit /\ ConsInit
InitOneShot == LogInit /\ OneShotInit /\ ConsInit
InitBuf == BufInit /\ CronInit /\ ConsInit

SpecLog == Init /\ [][LogNext]_vars
SpecFan == Init /\ [][FanNext]_vars
SpecCron == Init /\ [][CronNext]_vars
SpecStore == InitStore /\ [][StoreNext]_vars
SpecBackoff == InitBackoff /\ [][BackoffNext]_vars
SpecOneShot == InitOneShot /\ [][OneShotNext]_vars
SpecBuf == InitBuf /\ [][BufNext]_vars
SpecListener == Init /\ [][LsnNext]_vars

\* ------------------------------------------------ the heartbeat by itself
\* the instants the clock of these runs shows: 00:00, 00:01 and 12:00 of the
\* first day, 00:00 of the second
Instants == {0, 60000, 43200000, 86400000}

\* the state after createHeartbeat with some activeHours, over an engine
\* that gives any of the replies
HeartbeatInit == cfg \in [activeHours : ActiveHoursChoices, replies : {Replies}]
InitHeartbeat == LogInit /\ CronInit /\ ConsStart /\ HeartbeatInit

\* time goes by, between the fires and while the engine is asked
timePasses ==
    /\ pend = {}
    /\ \A i \in invs : i.pc = "ask"
    /\ \E t \in Instants : t > now /\ now' = t
    /\ UNCHANGED <<logVars, jobs, heap, timer, timeouts, stopped, started, storeIno, tmpIno,
                   inodes, ops, usedIds, restarts, callsLeft, saveFailed, lastCall, fireBudget,
                   consVars>>

\* the heartbeat job fires, the fire before it being dealt with: the append
\* of fireJob
heartbeatFire ==
    /\ seq < MaxHbSeq
    /\ cons["heartbeat"].sub # ""
    /\ invs = {}
    /\ pend = {}
    /\ AppendBegin(Client, "cron.fire", <<1, HEARTBEAT_JOB_NAME, "p">>)
    /\ UNCHANGED <<file, buffer, logRest, cronVars, consVars>>

HbNext ==
    \/ heartbeatSubscribe
    \/ timePasses
    \/ heartbeatFire
    \/ DiskWrite
    \/ fireDelivered
    \/ engineResolved
    \/ engineRejected
    \/ deliverDone
    \/ resultAppended
    \/ resultAppendFailed

SpecHeartbeat == InitHeartbeat /\ [][HbNext]_vars

\* -------------------------------------- start, setEnabled and stop of the
\* heartbeat, over the engine
\* mutation: the job is never found
findByNameNever(js, h, name) == 0
\* cronEngine.list().find((j) => j.name === name): 0 when there is none
findByName(js, h, name) ==
    LET hits == {i \in 1..Len(js) : h[js[i]].name = name} IN
    IF hits = {} THEN 0 ELSE js[SetMin(hits)]

\* what the heartbeat passes to update and add: config.every, config.prompt
HeartbeatEvery == [kind |-> "every", expr |-> <<0, 0, 1>>]
HeartbeatPatch(enabled) ==
    [name |-> "", payload |-> "p", enabled |-> IF enabled THEN "true" ELSE "false",
     schedule |-> <<HeartbeatEvery>>]

\* ensureJobAndListener, to its await of update or add
ensureJobAndListener(enabled) ==
    LET existing == findByName(jobs, heap, HEARTBEAT_JOB_NAME) IN
    IF existing # 0
    THEN updateJob(existing, heap[existing].id, HeartbeatPatch(enabled))
    ELSE /\ addJobTo(HEARTBEAT_JOB_NAME, HeartbeatEvery, "p", enabled)
         /\ Cardinality(usedIds) < MaxJobs

\* a call of start or setEnabled(b) of the heartbeat, the call before it and
\* the engine's start having been awaited (id: the id update was called with,
\* or the one add returns)
heartbeatCall(kind, b) ==
    LET enabled == IF kind = "setEnabled" THEN b ELSE hb.enabled
        existing == findByName(jobs, heap, HEARTBEAT_JOB_NAME)
    IN /\ Quiet
       /\ started
       /\ ops = {}
       /\ hbCalls = {}
       /\ hbLast.n < MaxHbCalls
       /\ ensureJobAndListener(enabled)
       /\ hb' = [hb EXCEPT !.enabled = enabled,
                           !.jobId = IF existing # 0 THEN heap[existing].id ELSE @]
       /\ hbCalls' = {[kind |-> kind, b |-> b, op |-> FreshIn(OpIds), pc |-> "ensure",
                        id |-> IF existing # 0 THEN heap[existing].id ELSE FreshIn(usedIds)]}
       /\ UNCHANGED <<callsLeft, fireBudget, logVars, cons, invs, asked, dropped, cfg, delivs,
                      outcomes, hbFile, hbLast>>

\* heartbeat.start()
heartbeatStart == heartbeatCall("start", FALSE)

\* heartbeat.setEnabled(newEnabled)
setEnabled == \E newEnabled \in BOOLEAN : heartbeatCall("setEnabled", newEnabled)

\* update or add has settled: the rest of ensureJobAndListener, then start
\* returns and setEnabled goes on to writeConfigSection
ensureResume ==
    /\ \E call \in hbCalls :
        /\ call.pc = "ensure"
        /\ \A o \in ops : o.id # call.op
        /\ IF saveFailed
           THEN /\ hbCalls' = {}
                /\ hbLast' = [n |-> hbLast.n + 1, kind |-> call.kind, b |-> call.b, ok |-> FALSE]
                /\ UNCHANGED <<cons, typeListeners, regs, hb>>
           ELSE /\ hb' = [hb EXCEPT !.jobId = call.id]
                /\ IF cons["heartbeat"].sub = "" THEN subscribeFire("heartbeat")
                   ELSE UNCHANGED <<cons, typeListeners, regs>>
                /\ IF call.kind = "start"
                   THEN /\ hbCalls' = {}
                        /\ hbLast' = [n |-> hbLast.n + 1, kind |-> call.kind, b |-> call.b,
                                      ok |-> TRUE]
                   ELSE /\ hbCalls' = {[call EXCEPT !.pc = "config"]}
                        /\ UNCHANGED hbLast
    /\ UNCHANGED <<file, seq, buffer, listeners, pend, up, crashes, bufferSize, ackLog, ackedMax,
                   rejected, lastFan, lastFanSeq, serial, cronVars, invs, asked, dropped, cfg,
                   delivs, outcomes, hbFile>>

\* writeConfigSection('heartbeat', {...config, enabled: newEnabled}) settles:
\* setEnabled returns, or rejects when the file could not be written
configDone ==
    /\ \E call \in hbCalls, ok \in BOOLEAN :
        /\ call.pc = "config"
        /\ hbFile' = IF ~ok THEN hbFile ELSE IF call.b THEN "true" ELSE "false"
        /\ hbLast' = [n |-> hbLast.n + 1, kind |-> call.kind, b |-> call.b, ok |-> ok]
        /\ hbCalls' = {}
    /\ UNCHANGED <<logVars, cronVars, cons, invs, asked, dropped, cfg, delivs, outcomes, hb>>

\* heartbeat.stop(), between the calls of start and setEnabled
heartbeatStopped ==
    /\ hbCalls = {}
    /\ heartbeatStop

\* the state after createHeartbeat, config.enabled being true or false, over
\* an engine that is started once
BootInit == \E enabled \in BOOLEAN : ConsStartWith(enabled)
InitBootstrap ==
    /\ LogInit
    /\ EngineInit /\ callsLeft = 1 /\ fireBudget = 0
    /\ BootInit
    /\ cfg = [activeHours |-> <<>>, replies |-> BasicReplies]

BootNext ==
    \/ start
    \/ loadDone
    \/ mkdirDone
    \/ writeOpen
    \/ writeData
    \/ renameDone
    \/ heartbeatStart
    \/ setEnabled
    \/ ensureResume
    \/ configDone
    \/ heartbeatStopped
    \/ heartbeatFire
    \/ DiskWrite
    \/ fireDelivered
    \/ engineResolved
    \/ deliverDone
    \/ resultAppended

SpecBootstrap == InitBootstrap /\ [][BootNext]_vars

\* ------------------------------------------------------------ properties
SeqsOf(s) == [i \in 1..Len(s) |-> s[i].seq]
SeqSet(s) == {s[i].seq : i \in 1..Len(s)}
ReadAll == Read(file, 0, Null, "")
RecentAll == Recent(buffer, 0, Null, "")
Count(x, s) == Cardinality({i \in 1..Len(s) : s[i] = x})

\* C1: from an empty log, once N appends, each awaited before the next, have
\* all succeeded, read() returns exactly the N entries append returned, in
\* append order, with seq 1..N, and lastSeq() = N.
C1_SerialAppendsNumbered ==
    (serial /\ crashes = 0 /\ pend = {}) =>
        /\ ReadAll = ackLog
        /\ SeqsOf(ReadAll) = [i \in 1..Len(ackLog) |-> i]
        /\ seq = Len(ackLog)

C1_Witness ==
    /\ serial /\ crashes = 0 /\ pend = {}
    /\ Len(ackLog) = 3
    /\ ackLog[1].type # ackLog[2].type

\* the entries of the file are in strictly increasing seq order
FileInSeqOrder ==
    \A i, j \in 1..Len(ReadAll) : i < j => ReadAll[i].seq < ReadAll[j].seq

\* C2: after any history and any number of restarts, a re-created log
\* continues the sequence with no repeat or reset: lastSeq() is never below
\* the seq of an entry that an append has returned, so no later append is
\* given that seq again.  Stated here for the histories whose file holds its
\* entries in seq order.
C2_NoSeqRepeatAcrossRestarts == (up /\ FileInSeqOrder) => seq >= ackedMax

\* C9: an entry whose durable write failed is not committed: it is not in
\* the buffer, neither read() nor recent() returns it, and no fan-out was
\* made for it.
C9_FailedAppendNotCommitted ==
    \A s \in rejected :
        /\ s \notin SeqSet(buffer)
        /\ s \notin SeqSet(ReadAll)
        /\ s \notin SeqSet(RecentAll)
        /\ lastFanSeq # s

C9_Witness ==
    /\ rejected # {}
    /\ \E i \in 1..Len(file) : file[i] = PART
    /\ Registrations > 0
    /\ buffer # <<>>
    /\ \E s \in rejected : s < seq

\* C10: in every fan-out each registration that matches the entry is called
\* exactly once, whichever of the callbacks throw, and the append resolves:
\* the entry is in the buffer and the append is not rejected.
C10_ThrowingSubscriberIsolated ==
    [][\A p \in pend :
         (p.st = "written" /\ p \notin pend') =>
            /\ \A fn \in Subs :
                 Count(fn, lastFan') =
                     (IF InSeq(fn, listeners) THEN 1 ELSE 0)
                   + (IF InSeq(fn, typeListeners[p.e.type]) THEN 1 ELSE 0)
            /\ lastFanSeq' = p.e.seq
            /\ p.e.seq \notin rejected'
            /\ ackedMax' >= p.e.seq
            /\ buffer'[Len(buffer')] = p.e]_vars

\* a fan-out in which a throwing callback was called before another global
\* callback and before a type callback
C10_Witness ==
    /\ Len(lastFan) = 3
    /\ lastFan[1] \in Throwing
    /\ lastFan[2] \notin Throwing
    /\ lastFan[3] \notin Throwing
    /\ lastFanSeq = ackedMax
    /\ lastFanSeq > 0


\* ---- the cron engine
TickOps(os) == {o \in os : o.kind = "tick"}
\* the places in the list of the jobs that are due at t
DuePlaces(js, h, t) ==
    {i \in 1..Len(js) : h[js[i]].enabled /\ h[js[i]].nextRunAtMs # Null
                        /\ h[js[i]].nextRunAtMs <= t}
\* the tick o starts in this step
TickStarts(o) == o \in TickOps(ops') /\ \A x \in ops : x.id # o.id
\* the tick o ends its loop in this step
LoopEnds(o) ==
    /\ o \in TickOps(ops)
    /\ o.pc = "fired"
    /\ \A x \in ops' : x.id = o.id => x.pc \notin {"fire", "fired"}
\* the entry the latest fire of o appended is in flight, with the job's fields
FireInFlight(o) ==
    LET t == o.att[Len(o.att)] IN
    \E p \in pend :
        /\ p.owner = o.id
        /\ p.e = [seq |-> t.seq, type |-> "cron.fire", payload |-> <<t.id, t.name, t.payload>>]

C4_Started ==
    \A o \in ops' :
        TickStarts(o) =>
            /\ Len(o.due) = Cardinality(DuePlaces(jobs, heap, now))
            /\ \A i \in DuePlaces(jobs, heap, now) :
                  o.due[1 + Cardinality({m \in DuePlaces(jobs, heap, now) : m < i})] = jobs[i]
            /\ (o.due # <<>>) => (o.pc = "fire" /\ o.cur = now)

C4_Fired ==
    \A o \in TickOps(ops) :
        o.pc \in {"fire", "fired"} =>
            /\ Len(o.att) = o.idx
            /\ o.idx \in 1..Len(o.due)
            /\ \A i \in 1..o.idx : o.att[i].job = o.due[i]
            /\ \A i, k \in 1..o.idx : i < k => o.att[i].seq < o.att[k].seq
            /\ o.pc = "fire" => FireInFlight(o)

C4_LoopDone ==
    \A o \in ops :
        LoopEnds(o) =>
            /\ o.idx = Len(o.due)
            /\ ~stopped => \E x \in ops' : x.id = o.id /\ x.pc = "mkdir"

C4_Rearmed ==
    \A o \in TickOps(ops) :
        (o.pc = "rename" /\ (\A x \in ops' : x.id # o.id) /\ tmpIno # 0 /\ ~stopped
         /\ \E i \in 1..Len(jobs) : heap[jobs[i]].enabled /\ heap[jobs[i]].nextRunAtMs # Null)
            => /\ storeIno' = tmpIno
               /\ timer' # Null
               /\ \E t \in timeouts' : t.id = timer'

\* C4: a tick takes every job that is due at its time (enabled, nextRunAtMs not
\* null and <= now), in list order, and appends one cron.fire carrying the job's
\* id, name and payload for each of them, one after the other; a failed append
\* does not end the loop, and the tick then saves and re-arms the timer.
C4_TickFiresEveryDueJob ==
    /\ [](C4_Fired)
    /\ [][C4_Started /\ C4_LoopDone /\ C4_Rearmed]_vars

\* a tick whose first append failed has fired its second due job
C4_Witness ==
    \E o \in TickOps(ops) :
        /\ Len(o.due) = 2
        /\ o.idx = 2
        /\ o.pc = "fired"
        /\ o.att[1].seq \in rejected
        /\ o.att[2].seq \notin rejected

\* C5: every fire a tick makes is of a job that, when it is fired, is enabled
\* and has a nextRunAtMs that is not null and not after the tick's time.
C5_TimerFiresOnlyEnabledDue ==
    \A o \in TickOps(ops) :
        \A i \in 1..Len(o.att) :
            /\ o.att[i].enabled
            /\ o.att[i].next # Null
            /\ o.att[i].next <= o.cur

\* C6: at most one fireJob is in progress (between its append and its state
\* transition) at any time.
C6_OneFireInProgress == Cardinality(Firing(ops)) <= 1

\* C7: the store file is absent or holds a complete document.
C7_StoreAbsentOrComplete == storeIno # 0 => inodes[storeIno].k = "doc"

\* the call o resolves in this step (a call whose save rejects does not)
Resolves(o) ==
    /\ o \in ops
    /\ \A x \in ops' : x.id # o.id
    /\ restarts' = restarts
    /\ ~(o.pc = "rename" /\ tmpIno = 0)
    /\ o.pc # "load"

\* C8: when a mutating call or a tick resolves and leaves no other call in
\* progress in a scheduler that was not stopped, the store file holds the
\* document of the job list.
C8_StoreEqualsJobList ==
    [][\A o \in ops :
          (Resolves(o) /\ ops' = {} /\ ~stopped')
              => /\ storeIno' # 0
                 /\ inodes'[storeIno'] = Doc(jobs', heap')]_vars

\* ---- the consumers
InvsOf(c) == {i \in invs : i.c = c}
\* the fire with sequence number s is dropped by c in this step
DroppedNow(c, s) == <<c, s>> \in dropped' /\ <<c, s>> \notin dropped

C3_OneAtATime ==
    \A c \in Consumers :
        /\ Cardinality(InvsOf(c)) <= 1
        /\ cons[c].processing <=> InvsOf(c) # {}
        /\ \A s \in 1..seq :
              <<c, s>> \in dropped
                  => /\ <<c, s>> \notin asked
                     /\ \A i \in invs : ~(i.c = c /\ i.fire = s)
        /\ \A p \in pend : p.owner # Client => \E i \in invs : i.id = p.owner

C3_Dropped ==
    \A c \in Consumers :
        /\ \A s \in 1..seq :
              DroppedNow(c, s)
                  => /\ InvsOf(c) # {}
                     /\ UNCHANGED <<seq, cons, invs, asked>>
                     /\ \A p \in pend' : p \in pend
        /\ \A p \in pend :
              (/\ p.owner = Client /\ p.st = "written" /\ p \notin pend'
               /\ InSeq(c, typeListeners["cron.fire"])
               /\ Matches(c, p.e.payload[2])
               /\ InvsOf(c) # {})
                  => DroppedNow(c, p.e.seq)

\* C3: a consumer has at most one invocation of handleFire in progress; a
\* matching cron.fire delivered while one is in progress is dropped: it starts
\* no invocation, no engine call and no append, then or later.
C3_BusyConsumerDropsFire ==
    /\ [](C3_OneAtATime)
    /\ [][C3_Dropped]_vars

\* the heartbeat has dropped a fire while busy with an engine call, and that
\* invocation has ended
C3_Witness ==
    /\ \E s \in 1..seq : <<"heartbeat", s>> \in dropped
    /\ \E s \in 1..seq : <<"heartbeat", s>> \in asked
    /\ InvsOf("heartbeat") = {}
    /\ ~cons["heartbeat"].processing

\* the fires the call with the id of o had started before this step
AttBefore(o) == UNION {{x.att} : x \in {y \in ops : y.id = o.id}}

\* C11: once stop() has been called the timer handle is null and stays null,
\* and the timer path starts no cron.fire append: no tick starts a fire, and a
\* tick that was in progress when stop() was called fires none of the due jobs
\* it has left.
C11_NoFireAfterStop ==
    [][stopped =>
          /\ timer' = Null
          /\ \A o \in TickOps(ops') :
                /\ AttBefore(o) = {} => o.att = <<>>
                /\ \A a \in AttBefore(o) : o.att = a]_vars

\* the call start() o ends its loop over the loaded jobs in this step
StartLoopEnds(o) ==
    /\ o \in ops
    /\ o.kind = "start"
    /\ o.pc = "load"
    /\ \E x \in ops' : x.id = o.id /\ x.pc = "mkdir"

\* C12 as claimed: when start() returns, no job of the list has a nextRunAtMs
\* before the time start() read.
C12_NoJobOverdueAfterStart ==
    [][\A o \in ops :
          (o.kind = "start" /\ Resolves(o)) =>
              \A i \in 1..Len(jobs') :
                  \/ heap'[jobs'[i]].nextRunAtMs = Null
                  \/ heap'[jobs'[i]].nextRunAtMs >= o.cur]_vars

\* C12, amended: when the loop of start() ends, before its save and before
\* the timer is armed, every enabled job of the loaded list has a nextRunAtMs
\* that is null or not before the time start() read; a disabled job is as it
\* was stored.
C12_StartRecomputesEnabled ==
    [][\A o \in ops :
          StartLoopEnds(o) =>
              /\ UNCHANGED <<timer, timeouts>>
              /\ storeIno # 0 =>
                    /\ Len(jobs') = Len(inodes[storeIno].jobs)
                    /\ \A i \in 1..Len(jobs') :
                          LET j == heap'[jobs'[i]]
                              s == inodes[storeIno].jobs[i]
                          IN /\ j.enabled => (j.nextRunAtMs = Null \/ j.nextRunAtMs >= now)
                             /\ ~s.enabled => j = s
                             /\ j.enabled => s.enabled
                             /\ j.id = s.id]_vars

\* start() has loaded an enabled job that was overdue and has given it a
\* later run, and a disabled overdue job that it has left alone
C12_Witness ==
    \E o \in ops :
        /\ o.kind = "start"
        /\ o.pc = "mkdir"
        /\ storeIno # 0
        /\ inodes[storeIno].k = "doc"
        /\ Len(jobs) = Len(inodes[storeIno].jobs)
        /\ \E i \in 1..Len(jobs) :
              LET s == inodes[storeIno].jobs[i] IN
              /\ s.enabled
              /\ s.nextRunAtMs # Null
              /\ s.nextRunAtMs < o.cur
              /\ heap[jobs[i]].nextRunAtMs > o.cur

\* the number of appends, counted back from the latest, that were rejected
RECURSIVE FailRun(_, _)
FailRun(s, rej) == IF s = 0 \/ s \notin rej THEN 0 ELSE 1 + FailRun(s - 1, rej)

\* the table of the claim: 30s, 60s, 5m, 15m, 1h, and 1h from then on
BackoffDelay(k) ==
    CASE k = 1 -> 30 * 1000
      [] k = 2 -> 60 * 1000
      [] k = 3 -> 5 * 60 * 1000
      [] k = 4 -> 15 * 60 * 1000
      [] OTHER -> 60 * 60 * 1000

\* C13: when the fire of a repeating or cron job at time t is the k-th in a
\* row whose append failed, fireJob sets the job's nextRunAtMs to t plus the
\* k-th delay of the table (the last delay from the fifth failure on) and
\* leaves the job enabled; the delays never decrease and none is above 1h.
C13_BackoffTable ==
    [][\A o \in ops :
          (o.pc = "fired" /\ o.res = "err" /\ o \notin ops'
           /\ heap[o.job].schedule.kind # "at") =>
              LET k == FailRun(seq, rejected) IN
              /\ k >= 1
              /\ heap'[o.job].nextRunAtMs = o.cur + BackoffDelay(k)
              /\ heap'[o.job].consecutiveErrors = k
              /\ heap'[o.job].enabled = heap[o.job].enabled
              /\ heap'[o.job].nextRunAtMs - o.cur <= 3600000
              /\ k > 1 => heap'[o.job].nextRunAtMs - o.cur >= BackoffDelay(k - 1)]_vars

\* six fires in a row have failed: the job waits 1h and is still enabled
C13_Witness ==
    \E a \in DOMAIN heap :
        /\ FailRun(seq, rejected) = 6
        /\ heap[a].consecutiveErrors = 6
        /\ heap[a].enabled
        /\ heap[a].nextRunAtMs = heap[a].lastRunAtMs + 3600000
        /\ ops = {}

\* a one-shot job whose fire has completed is disabled and has no next run
C14_Spent ==
    \A a \in DOMAIN heap :
        (heap[a].schedule.kind = "at" /\ heap[a].lastStatus # "") =>
            /\ ~heap[a].enabled
            /\ heap[a].nextRunAtMs = Null

\* the fires the call o starts in this step
NewFires(o) ==
    {o.att[i] : i \in {k \in 1..Len(o.att) : \A a \in AttBefore(o) : k > Len(a)}}

\* a tick starts no fire of a one-shot job whose fire has completed
C14_NoTimerFireAfterwards ==
    \A o \in TickOps(ops') :
        \A t \in NewFires(o) :
            heap[t.job].schedule.kind = "at" => heap[t.job].lastStatus = ""

\* C14: once a fire of a one-shot job has completed, by the timer or by
\* runNow and whether its append succeeded or failed, the job is disabled with
\* nextRunAtMs null, and the timer starts no fire of it afterwards.
C14_OneShotFiredOnce ==
    /\ [](C14_Spent)
    /\ [][C14_NoTimerFireAfterwards]_vars

\* update, remove or runNow is called with id in this step
CalledWith(id) == lastCall'.n # lastCall.n /\ lastCall'.id = id
InList(id) == \E i \in 1..Len(jobs) : heap[jobs[i]].id = id

\* C15: update, remove and runNow called with an id that no job of the list
\* has reject with the not-found error that names the id, and change nothing:
\* the job list and its jobs, the store and the temp file, the timer, the
\* event log and the calls in progress are as before.  With an id of the list
\* they do not reject so.
C15_UnknownIdRejected ==
    [][\A id \in CallIds :
          CalledWith(id) =>
              IF InList(id) THEN lastCall'.err = Null
              ELSE /\ lastCall'.err = id
                   /\ UNCHANGED <<jobs, heap, storeIno, tmpIno, inodes, timer, timeouts,
                                  stopped, ops, file, seq, pend, buffer>>]_vars

\* a call with an unknown id was rejected while a tick was waiting for the
\* append of a job's fire
C15_Witness ==
    /\ lastCall.err # Null
    /\ lastCall.err = lastCall.id
    /\ Len(jobs) = 2
    /\ \E o \in TickOps(ops) : o.pc = "fire"
    /\ timeouts # {}

\* C16: when the fireJob of a runNow call has completed, the job's
\* nextRunAtMs is what it was when runNow was called.
C16_RunNowKeepsSchedule ==
    [][\A o \in ops :
          (o.kind = "runNow" /\ o.pc = "fired" /\ o \notin ops' /\ o.job \in DOMAIN heap')
              => heap'[o.job].nextRunAtMs = o.att[1].next]_vars

\* ---- the buffer and the queries
\* the last n entries of s
LastN(s, n) == SubSeq(s, Len(s) - n + 1, Len(s))

\* C17: the buffer never holds more than bufferSize entries, whatever size the
\* log was created with; and when no append is in progress it holds the
\* min(N, bufferSize) most recent of the N entries of the durable log, in
\* their order, which is seq order.
C17_BufferHoldsMostRecent ==
    up =>
        /\ Len(buffer) <= bufferSize
        /\ pend = {} =>
              /\ buffer = LastN(ReadAll, Min(Len(ReadAll), bufferSize))
              /\ \A i, k \in 1..Len(buffer) : i < k => buffer[i].seq < buffer[k].seq

\* the options of the modelled queries: limit Null and type "" are options
\* that are not given
QueryAfterSeqs == 0..MaxSeq
QueryLimits == {Null} \cup 0..MaxSeq
QueryTypes == {""} \cup ClientTypes

\* the first `limit` of the entries with seq > afterSeq and the type
FirstMatching(entries, afterSeq, limit, type) ==
    LET hit == SelectSeq(entries, LAMBDA e : e.seq > afterSeq /\ (type = "" \/ e.type = type)) IN
    IF limit = Null THEN hit ELSE SubSeq(hit, 1, Min(limit, Len(hit)))

\* C18: read({afterSeq, type, limit}) is the first `limit` entries, in file
\* order, of the parseable lines of the file that have seq > afterSeq and the
\* type, for every afterSeq >= 0, type and limit >= 0: never more than limit.
C18_ReadReturnsFirstLimit ==
    \A afterSeq \in QueryAfterSeqs, limit \in QueryLimits, type \in QueryTypes :
        /\ Read(file, afterSeq, limit, type) = FirstMatching(ReadAll, afterSeq, limit, type)
        /\ limit # Null => Len(Read(file, afterSeq, limit, type)) <= limit

\* the file that holds the lines of the entries of buf
RECURSIVE FileOf(_)
FileOf(buf) == IF buf = <<>> THEN <<>> ELSE Line(Head(buf)) \o FileOf(Tail(buf))

\* C19: recent(opts) is what read(opts) returns of a file that holds the
\* buffered entries; and when no append is in progress and the log holds at
\* most bufferSize entries, recent(opts) and read(opts) return the same seqs.
C19_RecentLikeRead ==
    up =>
        \A afterSeq \in QueryAfterSeqs, limit \in QueryLimits, type \in QueryTypes :
            /\ Recent(buffer, afterSeq, limit, type) = Read(FileOf(buffer), afterSeq, limit, type)
            /\ (pend = {} /\ Len(ReadAll) <= bufferSize) =>
                  SeqsOf(Recent(buffer, afterSeq, limit, type))
                      = SeqsOf(Read(file, afterSeq, limit, type))


\* ---- the order of the fan-out
\* the callbacks of the registrations in r, in their order
RECURSIVE FnsOf(_)
FnsOf(r) == IF r = <<>> THEN <<>> ELSE <<Head(r)[1]>> \o FnsOf(Tail(r))

\* the registrations in force that match an entry of the type, in the order
\* in which they were made
Matching(type) == SelectSeq(regs, LAMBDA x : x[2] = "" \/ x[2] = type)
MadeWithSubscribe == SelectSeq(regs, LAMBDA x : x[2] = "")
MadeWithSubscribeType(type) == SelectSeq(regs, LAMBDA x : x[2] = type)

\* the step in which the append of p, written to the file, goes on to the
\* buffer and the fan-out
FansOut(p) == p \in pend /\ p.st = "written" /\ p \notin pend'

\* C20 as stated: on each append, the entry being in the file and in the
\* buffer, the matching subscribers are called in the order in which they
\* were registered, whatever mix of subscribe and subscribeType was made.
C20_RegistrationOrder ==
    [][\A p \in pend :
         FansOut(p) =>
            /\ InSeq(<<"E", p.e>>, file)
            /\ InSeq(p.e, buffer')
            /\ lastFanSeq' = p.e.seq
            /\ lastFan' = FnsOf(Matching(p.e.type))]_vars

\* C20 (amended): on each append, the entry being in the file and in the
\* buffer, the subscribers registered with subscribe are called first, in the
\* order in which they were registered, and after them the subscribers
\* registered with subscribeType for the type of the entry, in the order in
\* which they were registered.
C20_GlobalThenTypeOrder ==
    [][\A p \in pend :
         FansOut(p) =>
            /\ InSeq(<<"E", p.e>>, file)
            /\ InSeq(p.e, buffer')
            /\ lastFanSeq' = p.e.seq
            /\ lastFan' = FnsOf(MadeWithSubscribe) \o FnsOf(MadeWithSubscribeType(p.e.type))]_vars

\* a fan-out that called three callbacks, of registrations that are all still
\* in force, where the first registration made was one of subscribeType and
\* a later one of subscribe
C20_Witness ==
    /\ lastFanSeq > 0
    /\ Len(lastFan) = 3
    /\ Len(regs) = 3
    /\ regs[1][2] # ""
    /\ regs[3][2] = ""
    /\ lastFan = FnsOf(MadeWithSubscribe) \o FnsOf(MadeWithSubscribeType(regs[1][2]))
    /\ lastFan # FnsOf(regs)

\* ---- the consumers' handling of a fire
\* the invocation i is in progress and this step takes it to the pc
Moves(i, pc) == i \in invs /\ \E x \in invs' : x.id = i.id /\ x.pc = pc /\ i.pc # pc
\* the invocation i ends in this step
Ends(i) == i \in invs /\ \A x \in invs' : x.id # i.id
\* the append the invocation i waits for after this step
AppendOf(i) == {p.e : p \in {q \in pend' : q.owner = i.id}}
ErrorEvent(c) == IF c = "heartbeat" THEN "heartbeat.error" ELSE "cron.error"
DoneEvent(c) == IF c = "heartbeat" THEN "heartbeat.done" ELSE "cron.done"
OutcomesOf(c, s) == {o \in outcomes : o.c = c /\ o.fire = s}

\* the engine call of i fails in this step
EngineFails(i) == i.pc = "ask" /\ Moves(i, "appendErr")

\* C21: when the engine call of an invocation fails, the consumer appends its
\* error event (cron.error {jobId, jobName, error, durationMs}, heartbeat.error
\* {error, durationMs}) with the message of the failure, the append of the fire
\* is not rejected, no done event of that fire is or was appended, the
\* invocation ends with the in-progress guard released and the subscription in
\* place, and a later fire that finds the consumer idle is taken to the engine.
C21_EngineFailureLogged ==
    [][/\ \A i \in invs :
            /\ EngineFails(i) =>
                  /\ \E e \in AppendOf(i) :
                        /\ e.type = ErrorEvent(i.c)
                        /\ e.payload[Len(e.payload)] = now - i.start
                        /\ e.payload[Len(e.payload) - 1] \in EngineErrors
                        /\ i.c = "listener" =>
                              e.payload = <<i.jobId, i.jobName, e.payload[3], now - i.start>>
                  /\ Cardinality(AppendOf(i)) = 1
                  /\ i.fire \notin rejected'
                  /\ OutcomesOf(i.c, i.fire) = {}
            /\ (i.pc = "appendErr" /\ Ends(i)) =>
                  /\ \A o \in outcomes' : (o.c = i.c /\ o.fire = i.fire) => o.e.type = ErrorEvent(i.c)
                  /\ ~cons'[i.c].processing
                  /\ cons'[i.c].sub = cons[i.c].sub
      /\ \A p \in pend, c \in Consumers :
            ( /\ p.owner = Client /\ p.st = "written" /\ p \notin pend'
              /\ \E o \in outcomes : o.c = c /\ o.e.type = ErrorEvent(c)
              /\ cons[c].sub # "" /\ Matches(c, p.e.payload[2]) /\ ~cons[c].processing )
            => <<c, p.e.seq>> \in asked']_vars

\* the engine call failed for a fire, the error event with its message was
\* appended, and the consumer has taken a later fire to the engine
C21_Witness ==
    \E o \in outcomes :
        /\ o.e.type = ErrorEvent(o.c)
        /\ o.e.payload[Len(o.e.payload) - 1] \in EngineErrors
        /\ \E s \in (o.fire + 1)..seq : <<o.c, s>> \in asked

\* the delivery call of i settles in this step, with a failure
DeliveryFails(i) ==
    /\ i.pc = "deliver"
    /\ Len(delivs') = Len(delivs) + 1
    /\ LET r == delivs'[Len(delivs')] IN r.c = i.c /\ r.fire = i.fire /\ ~r.ok
\* a delivery call made for the fire s of c has failed
DeliveryFailed(c, s) == \E k \in 1..Len(delivs) : delivs[k].c = c /\ delivs[k].fire = s /\ ~delivs[k].ok

\* C22: when the delivery call of an invocation fails, the consumer goes on to
\* append its done event with the reply (the heartbeat with delivered false,
\* and without recording the text as sent); when that append resolves the done
\* event is the only result event of the fire: no error event.
C22_DeliveryFailureNotBlocking ==
    [][\A i \in invs :
         /\ DeliveryFails(i) =>
               /\ Cardinality(AppendOf(i)) = 1
               /\ \A e \in AppendOf(i) :
                     /\ e.type = DoneEvent(i.c)
                     /\ IF i.c = "heartbeat"
                        THEN e.payload[3] = i.text /\ e.payload[4] = 0
                        ELSE e.payload = <<i.jobId, i.jobName, i.text, now - i.start>>
               /\ hb' = hb
         /\ (i.pc = "append" /\ Ends(i) /\ DeliveryFailed(i.c, i.fire) /\ outcomes' # outcomes) =>
               /\ Cardinality({o \in outcomes' : o.c = i.c /\ o.fire = i.fire}) = 1
               /\ \A o \in outcomes' : (o.c = i.c /\ o.fire = i.fire) => o.e.type = DoneEvent(i.c)
               /\ ~cons'[i.c].processing]_vars

\* the delivery of a heartbeat message has failed and heartbeat.done with
\* delivered false is in the log
C22_Witness ==
    \E o \in outcomes :
        /\ o.c = "heartbeat"
        /\ o.e.type = "heartbeat.done"
        /\ o.e.payload[4] = 0
        /\ DeliveryFailed("heartbeat", o.fire)
        /\ \E k \in 1..Len(file) : file[k] = <<"E", o.e>>

\* the append of the cron.fire p resolves in this step: its fan-out is made
FireDelivers(p) == p \in pend /\ p.owner = Client /\ p.st = "written" /\ p \notin pend'
\* stop() is called on the subscribed consumer c in this step
Stops(c) == cons[c].sub # "" /\ cons'[c].sub = ""

ResultTypes(c) == IF c = "heartbeat" THEN {"heartbeat.skip", "heartbeat.done", "heartbeat.error"}
                  ELSE {"cron.done", "cron.error"}
\* the guard of a consumer is set exactly while an invocation of it is in flight
GuardHeldByInvocation == \A c \in Consumers : cons[c].processing <=> \E i \in invs : i.c = c
\* no fire has two result events of one consumer
OneResultPerFire ==
    \A o1 \in outcomes, o2 \in outcomes : (o1.c = o2.c /\ o1.fire = o2.fire) => o1 = o2

\* C30: a fire a consumer has started processing never has two result events
\* of that consumer; when the invocation ends after an append that resolved,
\* the fire has exactly one, of a type of that consumer, and it is in the
\* file; whenever an invocation ends, the guard is released.
C30_OneResultThenGuardReleased ==
    [][/\ GuardHeldByInvocation'
       /\ OneResultPerFire'
       /\ \A i \in invs :
            Ends(i) =>
               /\ ~cons'[i.c].processing
               /\ outcomes' # outcomes =>
                     \E o \in outcomes' :
                         /\ {x \in outcomes' : x.c = i.c /\ x.fire = i.fire} = {o}
                         /\ o.e.type \in ResultTypes(i.c)
                         /\ InSeq(EntryText(o.e), file)]_vars

\* the done append of an invocation was rejected, its error append resolved:
\* the error event is the result of the fire, and the guard is released
C30_Witness ==
    \E o \in outcomes :
        /\ o.e.type = ErrorEvent(o.c)
        /\ o.e.payload[Len(o.e.payload) - 1] = AppendError
        /\ o.e.seq - 1 \in rejected
        /\ ~cons[o.c].processing
        /\ \E x \in outcomes : x.e.type = "heartbeat.skip"

\* the deliveries that went through, as indexes of delivs
Sent == {k \in 1..Len(delivs) : delivs[k].c = "heartbeat" /\ delivs[k].ok}
LatestSent == CHOOSE k \in Sent : \A j \in Sent : j <= k
\* the engine call of the heartbeat invocation i resolves in this step, and x
\* is the invocation after it
Answered(i, x) ==
    /\ i \in invs /\ i.c = "heartbeat" /\ i.pc = "ask"
    /\ x \in invs' /\ x.id = i.id /\ x.pc \in {"append", "deliver"}
\* the reply is on the deliverable branch with the text t
Deliverable(raw, t) ==
    LET parsed == parseHeartbeatResponse(raw) IN
    /\ parsed.status = "CHAT_YES"
    /\ t = textToSend(parsed, raw)
    /\ trim(t) # <<>>
SkipsOf(i) == {e \in AppendOf(i) : e.type = "heartbeat.skip"}

\* C24: when the engine answers a heartbeat fire with a deliverable text, the
\* fire is skipped as a duplicate exactly if that text is the text of the
\* latest delivery that went through and less than the window has passed
\* since; a fire skipped as a duplicate makes no delivery call.
C24_DuplicateWithinWindow ==
    [][/\ \A i \in invs, x \in invs' :
            Answered(i, x) =>
                \A t \in {x.raw, parseHeartbeatResponse(x.raw).content} :
                    Deliverable(x.raw, t) =>
                        LET same == /\ Sent # {}
                                    /\ delivs[LatestSent].text = t
                                    /\ now - delivs[LatestSent].at < DedupWindowMs
                        IN IF same
                           THEN /\ x.pc = "append"
                                /\ AppendOf(i) = {[seq |-> seq', type |-> "heartbeat.skip",
                                                   payload |-> <<"duplicate">>]}
                           ELSE \A e \in SkipsOf(i) : e.payload # <<"duplicate">>
       /\ \A o \in outcomes' :
            o.e.type = "heartbeat.skip" =>
                \A k \in 1..Len(delivs') : delivs'[k].fire # o.fire]_vars

\* a text was delivered, and the next fire, answered with the same text less
\* than a day later, was skipped as a duplicate
C24_Witness ==
    \E o \in outcomes, k \in Sent :
        /\ o.e.type = "heartbeat.skip"
        /\ o.e.payload = <<"duplicate">>
        /\ delivs[k].fire < o.fire
        /\ now > delivs[k].at
        /\ Len(delivs) = 1

\* a text was delivered twice, a day apart
C24_Expired ==
    \E j \in Sent, k \in Sent :
        /\ j < k
        /\ delivs[j].text = delivs[k].text
        /\ delivs[k].at - delivs[j].at >= DedupWindowMs

\* the minute of the day at the instant t, and HH:MM as a minute of the day
MinuteOfDay(t) == (t \div 60000) % 1440
AsMinute(hm) == hm[1] * 60 + hm[2]
ValidHHMM(hm) == hm[1] \in 0..23 /\ hm[2] \in 0..59
\* the instant t lies in the window [start, end) of ah, an end before the start
\* being an end on the day after
InWindow(ah, t) ==
    LET s == AsMinute(ah[1])
        e == AsMinute(ah[2])
        m == MinuteOfDay(t)
    IN IF s <= e THEN s <= m /\ m < e ELSE m >= s \/ m < e
\* the heartbeat takes the fire p in this step
HeartbeatTakes(p) ==
    /\ FireDelivers(p)
    /\ cons["heartbeat"].sub # ""
    /\ p.e.payload[2] = HEARTBEAT_JOB_NAME
    /\ ~cons["heartbeat"].processing

\* C25: a fire the heartbeat takes outside its window of active hours starts
\* no engine call and appends heartbeat.skip {outside-active-hours}; a fire it
\* takes inside the window, or without a window, starts the engine call; no
\* fire skipped for the hours was ever taken to the engine.
C25_ActiveHoursGate ==
    [][/\ \A p \in pend :
            HeartbeatTakes(p) =>
                IF cfg.activeHours = <<>>
                THEN <<"heartbeat", p.e.seq>> \in asked'
                ELSE (ValidHHMM(cfg.activeHours[1]) /\ ValidHHMM(cfg.activeHours[2])) =>
                        IF InWindow(cfg.activeHours, now)
                        THEN /\ <<"heartbeat", p.e.seq>> \in asked'
                             /\ pend' = pend \ {p}
                        ELSE /\ asked' = asked
                             /\ \E q \in pend' \ pend :
                                   /\ pend' = (pend \ {p}) \cup {q}
                                   /\ q.e.type = "heartbeat.skip"
                                   /\ q.e.payload = <<"outside-active-hours">>
       /\ \A o \in outcomes' :
            (o.e.type = "heartbeat.skip" /\ o.e.payload = <<"outside-active-hours">>) =>
                <<"heartbeat", o.fire>> \notin asked']_vars

\* with a window that wraps midnight, one fire was skipped for the hours and a
\* later one was taken to the engine
C25_Witness ==
    /\ cfg.activeHours # <<>>
    /\ AsMinute(cfg.activeHours[1]) > AsMinute(cfg.activeHours[2])
    /\ \E o \in outcomes :
        /\ o.e.type = "heartbeat.skip"
        /\ o.e.payload = <<"outside-active-hours">>
        /\ \E s \in (o.fire + 1)..seq : <<"heartbeat", s>> \in asked

\* the reply is STATUS: CHAT_YES with the non-empty CONTENT t
HasContent(raw, t) ==
    LET parsed == parseHeartbeatResponse(raw) IN
    /\ parsed.status = "CHAT_YES"
    /\ ~parsed.unparsed
    /\ t = parsed.content
    /\ trim(t) # <<>>
\* t is what went out last, less than the window ago
SentOfLate(t) ==
    /\ Sent # {}
    /\ delivs[LatestSent].text = t
    /\ now - delivs[LatestSent].at < DedupWindowMs
DelivsOf(s) == {k \in 1..Len(delivs) : delivs[k].c = "heartbeat" /\ delivs[k].fire = s}

\* C26: a heartbeat reply of STATUS: CHAT_YES with a non-empty CONTENT that
\* did not go out of late is not skipped: with a delivery target the delivery
\* call is made with the content (without one, heartbeat.done with delivered
\* false is appended); when the delivery goes through, heartbeat.done is
\* appended with the content as reply and delivered true; no fire has two
\* delivery calls.
C26_ContentDeliveredOnce ==
    [][/\ \A i \in invs, x \in invs' :
            Answered(i, x) =>
                \A t \in {parseHeartbeatResponse(x.raw).content} :
                    (HasContent(x.raw, t) /\ ~SentOfLate(t)) =>
                        /\ x.text = t
                        /\ SkipsOf(i) = {}
                        /\ x.pc = "append" =>
                               \A e \in AppendOf(i) :
                                   e.type = "heartbeat.done" /\ e.payload[3] = t /\ e.payload[4] = 0
       /\ \A i \in invs :
            (i.c = "heartbeat" /\ i.pc = "deliver" /\ Len(delivs') > Len(delivs)) =>
                LET r == delivs'[Len(delivs')] IN
                /\ delivs' = Append(delivs, r)
                /\ r.fire = i.fire
                /\ DelivsOf(i.fire) = {}
                /\ \A t \in {parseHeartbeatResponse(i.raw).content} :
                       HasContent(i.raw, t) =>
                           /\ r.text = t
                           /\ r.ok => AppendOf(i) = {[seq |-> seq', type |-> "heartbeat.done",
                                                      payload |-> <<i.dur, i.reason, t, 1>>]}
       /\ \A s \in 1..seq : Cardinality(DelivsOf(s)) <= 1]_vars

\* the reply was a STATUS: CHAT_YES with a CONTENT, the content (not the
\* reply) went out, and heartbeat.done with it and delivered true is written
C26_Witness ==
    \E i \in invs, p \in pend :
        /\ i.c = "heartbeat" /\ i.pc = "append"
        /\ HasContent(i.raw, i.text)
        /\ i.raw # i.text
        /\ \E k \in DelivsOf(i.fire) : delivs[k].ok /\ delivs[k].text = i.text
        /\ p.owner = i.id /\ p.st = "written"
        /\ p.e.type = "heartbeat.done"
        /\ p.e.payload[3] = i.text /\ p.e.payload[4] = 1
        /\ InSeq(EntryText(p.e), file)

\* no line of the reply is a STATUS line with one of the three statuses
NoStatusLine(raw) ==
    \A k \in 1..Len(raw) :
        ~(raw[k].k = "status" /\ toUpperCase(raw[k].v) \in HeartbeatStatuses)
NonBlankLines(raw) == {k \in 1..Len(raw) : raw[k] # Blank}
\* the reply without the white space around it
Stripped(raw) ==
    IF NonBlankLines(raw) = {} THEN <<>>
    ELSE SubSeq(raw, SetMin(NonBlankLines(raw)),
                CHOOSE k \in NonBlankLines(raw) : \A j \in NonBlankLines(raw) : j <= k)
\* the invocation i is not skipped for anything but a duplicate
TakenAsMessage(i) == \A e \in SkipsOf(i) : e.payload = <<"duplicate">>

NoContent(raw) ==
    LET parsed == parseHeartbeatResponse(raw) IN
    /\ parsed.status = "CHAT_YES"
    /\ ~parsed.unparsed
    /\ trim(parsed.content) = <<>>

\* C28: a heartbeat reply of STATUS: CHAT_YES whose content is empty makes no
\* delivery call and appends heartbeat.skip {empty}.
C28_EmptyContentSkipped ==
    [][\A i \in invs, x \in invs' :
         (Answered(i, x) /\ NoContent(x.raw)) =>
             /\ x.pc = "append"
             /\ AppendOf(i) = {[seq |-> seq', type |-> "heartbeat.skip",
                                payload |-> <<"empty">>]}]_vars

\* heartbeat.skip {empty} is never appended: the branch is not reached
C28_SkipsEmpty == \A p \in pend : ~(p.e.type = "heartbeat.skip" /\ p.e.payload = <<"empty">>)

\* the jobs of the engine named __heartbeat__, as indexes of jobs
HeartbeatJobs == {i \in 1..Len(jobs) : heap[jobs[i]].name = HEARTBEAT_JOB_NAME}
\* the callbacks of the heartbeat registered for cron.fire
HeartbeatSubs ==
    {k \in 1..Len(typeListeners["cron.fire"]) :
        InSeq(typeListeners["cron.fire"][k], Callbacks("heartbeat"))}
\* a call of start or setEnabled has been made
Bootstrapped == hbCalls # {} \/ hbLast.n > 0
\* setEnabled(b) returns in this step
SetEnabledReturns(b) ==
    /\ hbLast'.n = hbLast.n + 1
    /\ hbLast'.kind = "setEnabled"
    /\ hbLast'.b = b
    /\ hbLast'.ok

\* C29: over awaited calls of start, setEnabled and stop of the heartbeat the
\* engine never holds two jobs named __heartbeat__ and holds one once start or
\* setEnabled was called; the heartbeat never has two callbacks registered,
\* and no fan-out calls it twice; when setEnabled(b) returns, the job's
\* enabled flag, isEnabled() and enabled in the written configuration are b,
\* the job is in the job store with that flag, and the heartbeat is subscribed.
C29_SetEnabledIdempotent ==
    [][/\ Cardinality(HeartbeatJobs') <= 1
       /\ Bootstrapped' => Cardinality(HeartbeatJobs') = 1
       /\ Cardinality(HeartbeatSubs') <= 1
       /\ Cardinality(CallsOf("heartbeat", lastFan')) <= 1
       /\ \A s \in 1..seq' : Cardinality({i \in invs' : i.c = "heartbeat" /\ i.fire = s}) <= 1
       /\ \A b \in BOOLEAN :
            SetEnabledReturns(b) =>
                /\ \A i \in HeartbeatJobs' :
                      /\ heap'[jobs'[i]].enabled = b
                      /\ hb'.jobId = heap'[jobs'[i]].id
                      /\ inodes'[storeIno'].k = "doc"
                      /\ \E k \in 1..Len(inodes'[storeIno'].jobs) :
                            /\ inodes'[storeIno'].jobs[k].name = HEARTBEAT_JOB_NAME
                            /\ inodes'[storeIno'].jobs[k].enabled = b
                /\ hb'.enabled = b
                /\ hbFile' = IF b THEN "true" ELSE "false"
                /\ Cardinality(HeartbeatSubs') = 1
                /\ cons'["heartbeat"].sub # ""]_vars

\* after start(), setEnabled(false) and setEnabled(true), the last having
\* returned: one job, made by the first call and updated by the others, one
\* callback, and true in the job, the heartbeat and the configuration
C29_Witness ==
    /\ hbLast = [n |-> 3, kind |-> "setEnabled", b |-> TRUE, ok |-> TRUE]
    /\ hbCalls = {}
    /\ usedIds = {1}
    /\ lastCall.n = 2
    /\ Cardinality(HeartbeatJobs) = 1
    /\ \A i \in HeartbeatJobs : heap[jobs[i]].enabled
    /\ hb.enabled
    /\ hbFile = "true"
    /\ Cardinality(HeartbeatSubs) = 1
    /\ \E s \in 1..seq : <<"heartbeat", s>> \in asked

\* what HeartbeatDedup holds: nothing, or a text and the time it was recorded
Recorded == <<hb.hasText, hb.lastText, hb.lastSentAt>>
\* the engine call of i resolves in this step with a text to deliver and no
\* delivery target: heartbeat.done with delivered false is appended at once
NoTargetFor(i, x) ==
    /\ Answered(i, x)
    /\ x.pc = "append"
    /\ \E e \in AppendOf(i) : e.type = "heartbeat.done"

\* C40: what the dedup holds changes only in a step in which a delivery call
\* of the heartbeat settles, and then to the text of that call; a text that
\* was eligible but had no delivery target leaves it as it was; so what the
\* dedup holds is always the text and time of a delivery call that was made.
C40_RecordedOnlyOnDelivery ==
    [][/\ Recorded' # Recorded =>
            /\ Len(delivs') = Len(delivs) + 1
            /\ LET r == delivs'[Len(delivs')] IN
                  /\ r.c = "heartbeat"
                  /\ Recorded' = <<TRUE, r.text, r.at>>
       /\ \A i \in invs, x \in invs' : NoTargetFor(i, x) => Recorded' = Recorded
       /\ hb'.hasText =>
            \E k \in 1..Len(delivs') :
                /\ delivs'[k].c = "heartbeat"
                /\ delivs'[k].text = hb'.lastText
                /\ delivs'[k].at = hb'.lastSentAt]_vars

\* two fires were answered with the same text: the first found no delivery
\* target (heartbeat.done, delivered false, no delivery call), and at the
\* second, less than a day later, the text was not skipped but delivered
C40_Witness ==
    \E o \in outcomes, k \in Sent :
        /\ o.e.type = "heartbeat.done"
        /\ o.e.payload[4] = 0
        /\ DelivsOf(o.fire) = {}
        /\ delivs[k].fire > o.fire
        /\ delivs[k].text = o.e.payload[3]
        /\ delivs[k].at < DedupWindowMs


\* C31: every cron.fire a tick appends is for a job that, when the append is
\* made, is in the job list (not removed) and enabled, whatever calls were
\* made while the tick was waiting on an earlier append.
C31_NoFireOnceRemovedOrDisabled ==
    \A o \in TickOps(ops) :
        \A i \in 1..Len(o.att) : o.att[i].listed /\ o.att[i].enabled


\* the entries of s have strictly increasing seq
InSeqOrder(s) == \A i, j \in 1..Len(s) : i < j => s[i].seq < s[j].seq

\* C32: while no process has crashed and no append has failed, the entries
\* of the file and those of the buffer are in strictly increasing seq order
\* (so each seq is there once), however the appends overlap.
C32_OverlappingAppendsOrdered ==
    (crashes = 0 /\ rejected = {}) => InSeqOrder(ReadAll) /\ InSeqOrder(buffer)


\* the highest seq among the entries of the file, 0 when there is none
HighestCommitted ==
    IF ReadAll = <<>> THEN 0
    ELSE CHOOSE s \in SeqSet(ReadAll) : \A x \in SeqSet(ReadAll) : x <= s

\* C33: with no append in progress, lastSeq() is the highest seq among the
\* entries of the file, or 0 when there is none, also after an append that
\* failed.
C33_LastSeqIsHighestCommitted ==
    (up /\ pend = {} /\ crashes = 0) => seq = HighestCommitted


\* C36: in a process in which no append has failed, every entry append has
\* put in the buffer, and every entry recovery has restored, is returned by
\* read() and would be restored by a reopen, whatever a crash before it has
\* left at the end of the file.
C36_AppendedAfterTornLineRecovered ==
    (up /\ rejected = {}) =>
        \A k \in 1..Len(buffer) :
            /\ InSeq(buffer[k], ReadAll)
            /\ InSeq(buffer[k], ParsedEntries(file))


\* C35: at most one timer of the engine is pending.
C35_OneTimerPending == Cardinality(timeouts) <= 1

\* the enabled jobs of the list that have a next run
Schedulable(js, h) == {i \in 1..Len(js) : h[js[i]].enabled /\ h[js[i]].nextRunAtMs # Null}
\* the tick o ends in this step
TickEnds(o) == o \in ops /\ o.kind = "tick" /\ \A x \in ops' : x.id # o.id

\* C34: when a tick ends in an engine that is not stopped and a job that is
\* enabled and has a next run remains, a timer is pending, also when an
\* append or the store write of the tick has failed.
C34_TickEndsWithTimerArmed ==
    [][\A o \in ops :
          (TickEnds(o) /\ ~stopped' /\ restarts' = restarts /\ Schedulable(jobs', heap') # {})
              => timeouts' # {}]_vars


\* ---- the persisted jobs across instances
\* the ids of the jobs in the store file (none when the file is absent or
\* holds no document)
StoredIds(ino, fs) ==
    IF ino # 0 /\ fs[ino].k = "doc"
    THEN {fs[ino].jobs[i].id : i \in 1..Len(fs[ino].jobs)}
    ELSE {}

\* C37: when add() is made on an instance whose start() was never called
\* (and update, remove and runNow neither), and its save leaves the store
\* file with the document of the job list and no call in progress, the jobs
\* that were in the store file before are still in it.
C37_PersistedJobsKept ==
    [][(/\ ~started' /\ lastCall'.n = 0 /\ restarts' = restarts
        /\ ops # {} /\ ops' = {}
        /\ storeIno' # 0 /\ inodes'[storeIno'] = Doc(jobs', heap'))
          => StoredIds(storeIno, inodes) \subseteq StoredIds(storeIno', inodes')]_vars


\* ---- the run state of a job
\* the fire o of a job begins in this step: fireJob, to its await
FireBegins(o) ==
    /\ o \in ops'
    /\ o.pc = "fire"
    /\ \A x \in ops : x.id = o.id => (x.pc = "fired" /\ x.job # o.job)
\* the fire o settles in this step: fireJob after its await
FireSettles(o) == o \in ops /\ o.pc = "fired" /\ o \notin ops'
\* update(id, patch) with a schedule is applied to the job at a in this step
ScheduleUpdated(a) ==
    /\ \E o \in ops' \ ops : o.kind = "update"
    /\ heap'[a].consecutiveErrors = 0
    /\ heap'[a].nextRunAtMs = computeNextRun(heap'[a].schedule, now)

AllSchedules ==
    Schedules \cup
    { [kind |-> "at", expr |-> <<>>],
      [kind |-> "every", expr |-> <<>>],
      [kind |-> "every", expr |-> <<0, 0, 0>>],
      [kind |-> "cron", expr |-> EveryMinute],
      [kind |-> "cron", expr |-> <<>>] }

\* the caller adds one job
addScheduled ==
    /\ ops = {}
    /\ usedIds = {}
    /\ \E schedule \in AllSchedules, enabled \in BOOLEAN : addJob("j", schedule, "p", enabled)
    /\ UNCHANGED callsLeft

\* update(id, { schedule }), to its await in save
reschedule ==
    /\ Quiet
    /\ Call
    /\ Cardinality(ops) < MaxOps
    /\ \E id \in usedIds, schedule \in AllSchedules :
        LET a == Find(jobs, heap, id) IN
        /\ a # 0
        /\ updateJob(a, id, [name |-> "", payload |-> "", enabled |-> "",
                             schedule |-> <<schedule>>])
    /\ UNCHANGED <<logVars, consVars, fireBudget>>

ScheduleInit == EngineInit /\ callsLeft = MaxScheduleCalls /\ fireBudget = MaxCronSeq
InitSchedule == LogInit /\ ScheduleInit /\ ConsInit
ScheduleNext ==
    \/ addScheduled
    \/ reschedule
    \/ start
    \/ loadDone
    \/ runNow
    \/ onTick
    \/ DiskWrite
    \/ appendResolved
    \/ appendRejected
    \/ fireJobResume
    \/ mkdirDone
    \/ writeOpen
    \/ writeData
    \/ renameDone
    \/ advanceClock
SpecSchedule == InitSchedule /\ [][ScheduleNext]_vars

\* computeNextRun has a result for the schedule at some instant: its text
\* parses (a duration of 0 counts as one that does not)
Parseable(schedule) ==
    CASE schedule.kind = "at" -> ParseDate(schedule.expr) # NaN
      [] schedule.kind = "every" -> parseDuration(schedule.expr) # Null
      [] OTHER -> /\ Len(schedule.expr) = 5
                  /\ \A i \in 1..5 : parseFieldValues(schedule.expr[i]) # <<>>

\* C39: a job whose schedule does not parse has a null nextRunAtMs; a job
\* with a repeating schedule that parses has a non-null one; a one-shot job
\* whose timestamp parses has a null one when a fire of it has settled, and
\* only when it was fired or its timestamp is past.
C39_NextRunNullExactlyWhenIdle ==
    [][\A a \in DOMAIN heap' :
          LET j == heap'[a] IN
          /\ ~Parseable(j.schedule) => j.nextRunAtMs = Null
          /\ (Parseable(j.schedule) /\ j.schedule.kind # "at") => j.nextRunAtMs # Null
          /\ (Parseable(j.schedule) /\ j.schedule.kind = "at") =>
                /\ j.nextRunAtMs = Null =>
                      (j.lastStatus # "" \/ ParseDate(j.schedule.expr) <= now')
                /\ (\E o \in ops : FireSettles(o) /\ o.job = a) => j.nextRunAtMs = Null]_vars
====
